---- MODULE Spec2Model ----
(***************************************************************************)
(* A model of fromenv's type-directed decoder (fromenv/internal/loaders.py) *)
(* The decoder walks a dataclass schema, derives one variable name per     *)
(* leaf, binds variables in a ledger (VarBinding) and builds the value.    *)
(* Loaders are recursive functions in the source and recursive operators   *)
(* here; the root data class is decoded one field per step.                *)
(***************************************************************************)
EXTENDS Integers, Sequences, FiniteSets, TLC

VARIABLES
    root,    \* name of the data class handed to from_env
    config,  \* the Config handed to from_env (strategy.config)
    envArg,  \* the env argument of from_env: None or a mapping
    environ, \* os.environ, the environment of the process
    vars,    \* VarBinding.vars: the input mapping, variable name -> raw string
    bound,   \* VarBinding.bound: variable name -> the Value that claimed it
    binds,   \* history of VarBinding.bind calls, in order
    idx,     \* DataClassLoader.load: index of the root field being decoded
    args,    \* DataClassLoader.load: constructor_arguments of the root
    pc,      \* "load" | "done" | "error"
    result,  \* the value from_env returns, once pc = "done"
    error,   \* the exception from_env raises, once pc = "error"
    calls    \* the loader invocations completed so far, innermost first

allVars == <<root, config, envArg, environ, vars, bound, binds, idx, args, pc, result, error, calls>>

\* ---------------------------------------------------------------- bounds

\* Largest number of variables in the input mapping.
MaxKeys == 2

\* Largest list / tuple index that occurs in a variable name of the input.
MaxIndex == 1

\* ---------------------------------------------------------------- names

\* None, where the source holds None in a string-typed slot.
NONE == "<None>"

\* Config(prefix, sep); Config() is Config(prefix=None, sep="_")
Config(prefix, sep) == [prefix |-> prefix, sep |-> sep]

\* ListLoader.LENGTH_ATTR / AnyLengthTupleLoader.LENGTH_ATTR
LENGTH_ATTR == "LEN"

\* OptionalLoader.IS_NONE
IS_NONE == "IS_NONE__"

\* str.upper() on the identifiers of the schemas below; digits and
\* upper-case names are left as they are.
UpperTable ==
    [value |-> "VALUE", nested |-> "NESTED", nested_value |-> "NESTED_VALUE",
     list |-> "LIST", list_0 |-> "LIST_0", field |-> "FIELD",
     string |-> "STRING", tuple |-> "TUPLE", required |-> "REQUIRED",
     nullable |-> "NULLABLE", default |-> "DEFAULT",
     or_type_field |-> "OR_TYPE_FIELD", union_field |-> "UNION_FIELD",
     optional |-> "OPTIONAL", attr |-> "ATTR", x |-> "X",
     field_name |-> "FIELD_NAME", inner |-> "INNER",
     json_value |-> "JSON_VALUE", items |-> "ITEMS", level |-> "LEVEL"]

Upper(s) == IF s \in DOMAIN UpperTable THEN UpperTable[s] ELSE s

\* ---------------------------------------------------------------- types

IntT == [k |-> "int"]
FloatT == [k |-> "float"]
StrT == [k |-> "str"]
BoolT == [k |-> "bool"]
NoneType == [k |-> "none"]
Ellipsis == [k |-> "ellipsis"]
\* typing.Union[...] / X | Y
UnionT(alts) == [k |-> "union", args |-> alts]
OptT(t) == UnionT(<<t, NoneType>>)
\* List[T]
ListT(t) == [k |-> "list", args |-> <<t>>]
\* Tuple[T1, ..., Tn] and Tuple[T, ...]
TupleT(items) == [k |-> "tuple", args |-> items]
VarTupleT(t) == TupleT(<<t, Ellipsis>>)
\* a data class, by name
DataT(name) == [k |-> "dataclass", name |-> name]

\* typing.get_args
GetArgs(t) == IF t.k \in {"union", "list", "tuple"} THEN t.args ELSE <<>>

\* --------------------------------------------------------------- values

VNone == [t |-> "none", v |-> 0]
VInt(n) == [t |-> "int", v |-> n]
VStr(s) == [t |-> "str", v |-> s]
VBool(b) == [t |-> "bool", v |-> b]
VList(items) == [t |-> "list", v |-> items]
VTuple(items) == [t |-> "tuple", v |-> items]
\* data_class(**constructor_arguments): the fields' values in declared order
VObj(cls, fieldValues) == [t |-> "object", v |-> [cls |-> cls, args |-> fieldValues]]

\* ------------------------------------------------------------- metadata

\* Metadata(name, load); field.metadata without a "fromenv" entry is NoMeta.
NoMeta == [given |-> FALSE, name |-> NONE, load |-> NONE]
Meta(name, load) == [given |-> TRUE, name |-> name, load |-> load]

\* field.metadata["fromenv"] given as a plain string: the short form of an
\* override name.
PlainName(name) == [given |-> TRUE, plain |-> TRUE, name |-> name, load |-> NONE]

\* The custom parsers of the schemas: json.loads, and the lookup of a level
\* by its name in a dict (LEVELS.__getitem__).
JsonLoads == "json.loads"
LevelByName == "LEVELS.__getitem__"

\* -------------------------------------------------------------- schemas

\* A required field (no default, no default_factory).
Req(name, type) ==
    [name |-> name, type |-> type, has_default |-> FALSE, default |-> VNone,
     metadata |-> NoMeta]

\* A field with a default value or default_factory.
Dflt(name, type, default) ==
    [name |-> name, type |-> type, has_default |-> TRUE, default |-> default,
     metadata |-> NoMeta]

\* field(metadata={"fromenv": metadata}) on a field.
WithMetadata(field, metadata) == [field EXCEPT !.metadata = metadata]

\* The data classes of the test-suite (one root class per test scenario).
DataClassFields ==
    [ \* test_fromenv.py: test_ambiguity
      Nested |-> << Req("value", OptT(StrT)) >>,
      Ambiguity |-> << Req("nested", DataT("Nested")),
                       Req("nested_value", OptT(StrT)) >>,
      \* test_default_disambiguation.py: test_default_data_class_instead_of_none,
      \* with the nested class of test_ambiguity
      OptionalNested |-> << Req("nested", OptT(DataT("Nested"))) >>,
      \* test_fromenv.py: test_ambiguity_list
      AmbiguityList |-> << Req("list", ListT(IntT)),
                           Req("list_0", OptT(IntT)) >>,
      \* test_lists.py: test_specified_length
      Item |-> << Req("value", OptT(IntT)) >>,
      ListOfItems |-> << Req("list", ListT(DataT("Item"))) >>,
      ListOfOptional |-> << Req("list", ListT(OptT(DataT("Item")))) >>,
      \* test_any_length_tuples.py: test_specified_length
      TupleOfItems |-> << Req("tuple", VarTupleT(DataT("Item"))) >>,
      \* test_fromenv.py: test_incomplete_fixed_tuple_with_default
      FixedDefault |-> << Dflt("field", TupleT(<<IntT, StrT, BoolT>>),
                               VTuple(<<VInt(0), VStr(""), VBool(FALSE)>>)) >>,
      \* test_fromenv.py: test_incomplete_fixed_tuple_without_default
      FixedRequired |-> << Req("field", TupleT(<<IntT, StrT, BoolT>>)) >>,
      \* test_default_disambiguation.py: test_none_instead_of_field_default
      NestedDefault |-> << Dflt("value", StrT, VStr("nested-default")) >>,
      NoneOrDefault |->
          << Dflt("list", OptT(ListT(StrT)),
                  VList(<<VStr("field"), VStr("default")>>)),
             Dflt("string", OptT(StrT), VStr("field-default")),
             Dflt("nested", OptT(DataT("NestedDefault")),
                  VObj("NestedDefault", <<VStr("field-default")>>)) >>,
      \* test_default_disambiguation.py: test_empty_tuple_instead_of_field_default
      TupleDefault |-> << Dflt("tuple", VarTupleT(StrT),
                               VTuple(<<VStr("field"), VStr("default")>>)) >>,
      \* test_fromenv.py: test_defaults
      NestedOpt |-> << Dflt("value", OptT(StrT), VStr("default-1")) >>,
      Defaults |->
          << Req("required", DataT("NestedOpt")),
             Req("nullable", OptT(DataT("NestedOpt"))),
             Dflt("default", DataT("NestedOpt"),
                  VObj("NestedOpt", <<VStr("default-2")>>)) >>,
      \* test_defaults.py: test_type_specific_default_for_fields
      TypeDefaults |->
          << Req("nested", DataT("NestedDefault")),
             Req("tuple", VarTupleT(StrT)),
             Req("field", TupleT(<<DataT("NestedDefault"), DataT("NestedDefault")>>)),
             Req("optional", OptT(StrT)) >>,
      \* test_defaults.py: test_field_specific_default_instead_of_type_specific
      FieldDefaults |->
          << Dflt("nested", DataT("NestedDefault"),
                  VObj("NestedDefault", <<VStr("field-specific")>>)),
             Dflt("list", ListT(StrT), VList(<<VStr("field-specific")>>)),
             Dflt("field", TupleT(<<DataT("NestedDefault"), DataT("NestedDefault")>>),
                  VTuple(<<VObj("NestedDefault", <<VStr("field")>>),
                           VObj("NestedDefault", <<VStr("specific")>>)>>)) >>,
      \* test_fromenv.py: test_union
      UnionData |-> << Req("or_type_field", UnionT(<<StrT, IntT>>)),
                       Req("union_field", UnionT(<<IntT, StrT>>)) >>,
      \* test_fromenv.py: test_optional_data_class (a record with a required
      \* scalar) and unions over it: the alternatives read different keys
      NestedAttr |-> << Req("attr", StrT) >>,
      UnionOfThree |->
          << Req("field", UnionT(<<DataT("NestedAttr"), IntT, TupleT(<<IntT>>)>>)) >>,
      UnionOptional |->
          << Req("optional", OptT(UnionT(<<IntT, StrT>>))),
             Dflt("default", UnionT(<<DataT("NestedAttr"), IntT>>), VInt(3)) >>,
      \* test_fromenv.py: test_prefix
      Prefixed |-> << Req("value", StrT) >>,
      \* test_fromenv.py: test_custom_separator
      NestedStr |-> << Req("value", StrT) >>,
      Separated |-> << Req("nested", DataT("NestedStr")),
                       Req("list", ListT(IntT)) >>,
      \* test_fromenv.py: test_custom_var_name_short
      OverrideShort |->
          << WithMetadata(Req("field_name", StrT), PlainName("OVERRIDE_NAME")) >>,
      \* test_fromenv.py: test_custom_var_name_via_metadata
      OverrideMeta |->
          << WithMetadata(Req("field_name", StrT), Meta("OVERRIDE_NAME", NONE)) >>,
      \* an override name on a record field, and a record with an overridden
      \* field under an Optional
      OverrideNested |->
          << WithMetadata(Req("nested", DataT("NestedStr")), Meta("custom", NONE)) >>,
      OptionalHolder |-> << Req("inner", OptT(DataT("OverrideShort"))) >>,
      \* test_fromenv.py: test_custom_format, and custom parsers on fields of
      \* the other kinds
      CustomFormat |->
          << WithMetadata(Req("json_value", ListT(IntT)), Meta(NONE, JsonLoads)) >>,
      CustomKinds |->
          << WithMetadata(Req("optional", OptT(IntT)), Meta(NONE, JsonLoads)),
             WithMetadata(Dflt("nested", DataT("NestedStr"),
                               VObj("NestedStr", <<VStr("default")>>)),
                          Meta(NONE, JsonLoads)),
             WithMetadata(Dflt("union_field", UnionT(<<IntT, StrT>>), VInt(3)),
                          Meta("UNION", JsonLoads)) >>,
      CustomItems |->
          << WithMetadata(Req("items", ListT(IntT)), Meta(NONE, JsonLoads)) >>,
      OptionalCustom |-> << Req("inner", OptT(DataT("CustomItems"))) >>,
      CustomLookup |->
          << WithMetadata(Req("level", IntT), Meta(NONE, LevelByName)) >>,
      \* test_fromenv.py: test_default_tuple
      DefaultTuple |->
          << Req("required", OptT(TupleT(<<IntT, IntT>>))),
             Req("nullable", OptT(TupleT(<<OptT(IntT), OptT(IntT)>>))),
             Dflt("default", OptT(TupleT(<<OptT(IntT), OptT(IntT)>>)),
                  VTuple(<<VInt(1), VInt(2)>>)) >> ]

\* dataclasses.fields(data_class)
Fields(t) == DataClassFields[t.name]

\* The classes from_env is called on.
RootClasses ==
    {"Ambiguity", "OptionalNested", "AmbiguityList", "ListOfItems", "ListOfOptional",
     "TupleOfItems", "FixedDefault", "FixedRequired", "NoneOrDefault",
     "Defaults", "TypeDefaults", "FieldDefaults", "UnionData", "DefaultTuple",
     "TupleDefault", "UnionOfThree", "UnionOptional", "Prefixed", "Separated",
     "OverrideShort", "OverrideMeta", "OverrideNested", "OptionalHolder",
     "CustomFormat", "CustomKinds", "OptionalCustom", "CustomLookup"}

\* --------------------------------------------------------------- errors

NoErr == [kind |-> "none", var_name |-> NONE, qual_name |-> NONE,
          first_qual_name |-> NONE, value_type |-> NoneType]

\* MissingRequiredVar(var_name, qual_name)
MissingRequiredVar(var_name, qual_name) ==
    [kind |-> "MissingRequiredVar", var_name |-> var_name,
     qual_name |-> qual_name, first_qual_name |-> NONE, value_type |-> NoneType]

\* An AmbiguousVarError that names the second claimant first.
AmbiguousVarErrorSwapped(var_name, first_qual_name, second_qual_name) ==
    [kind |-> "AmbiguousVarError", var_name |-> var_name,
     qual_name |-> first_qual_name, first_qual_name |-> second_qual_name,
     value_type |-> NoneType]

\* AmbiguousVarError(var_name, first_qual_name, second_qual_name); the second
\* qualified name is kept in qual_name.
AmbiguousVarError(var_name, first_qual_name, second_qual_name) ==
    [kind |-> "AmbiguousVarError", var_name |-> var_name,
     qual_name |-> second_qual_name, first_qual_name |-> first_qual_name,
     value_type |-> NoneType]

\* InvalidVariableFormat(var_name, qual_name, cause)
InvalidVariableFormat(var_name, qual_name) ==
    [kind |-> "InvalidVariableFormat", var_name |-> var_name,
     qual_name |-> qual_name, first_qual_name |-> NONE, value_type |-> NoneType]

\* UnsupportedValueType(qual_name, value_type)
UnsupportedValueType(qual_name, value_type) ==
    [kind |-> "UnsupportedValueType", var_name |-> NONE,
     qual_name |-> qual_name, first_qual_name |-> NONE, value_type |-> value_type]

\* UnionLoadingError(qual_name, value_type)
UnionLoadingError(qual_name, value_type) ==
    [kind |-> "UnionLoadingError", var_name |-> NONE,
     qual_name |-> qual_name, first_qual_name |-> NONE, value_type |-> value_type]

\* An exception of the custom parser that is not a LoadingError: it leaves
\* from_env as the parser raised it.
ParserError(exception) ==
    [kind |-> exception, var_name |-> NONE, qual_name |-> NONE,
     first_qual_name |-> NONE, value_type |-> NoneType]

\* ------------------------------------------------------- schema helpers

\* DataClasses.is_dataclass
IsDataclass(t) == t.k = "dataclass"

\* DataClasses.has_default
HasDefault(field) == field.has_default

\* DataClasses.default_value
DefaultValue(field) == field.default

\* DataClasses.required_fields
RequiredFields(t) == SelectSeq(Fields(t), LAMBDA f : ~HasDefault(f))

\* OptionalTypes.is_optional
IsOptional(t) ==
    /\ t.k = "union"
    /\ \E i \in 1..Len(t.args) : t.args[i].k = "none"

\* OptionalTypes.remove_optional; typing.Union of one type is that type.
RemoveOptional(t) ==
    LET actual_types == SelectSeq(t.args, LAMBDA a : a.k # "none")
    IN  IF Len(actual_types) = 1 THEN actual_types[1] ELSE UnionT(actual_types)

\* Tuples.is_tuple
IsTuple(t) == t.k = "tuple"

\* Tuples.is_untyped
IsUntyped(t) == IsTuple(t) /\ Len(GetArgs(t)) = 0

\* Tuples.is_variable
IsVariable(t) ==
    /\ IsTuple(t)
    /\ Len(GetArgs(t)) = 2
    /\ GetArgs(t)[2].k = "ellipsis"

\* Tuples.is_fixed
IsFixed(t) == IsTuple(t) /\ ~IsVariable(t) /\ ~IsUntyped(t)

\* Tuples.is_any_length: called by AnyLengthTupleLoader.can_load; the helper
\* module of the source does not define it.  An any-length tuple is
\* Tuple[T, ...].
IsAnyLength(t) == IsVariable(t)

\* Tuples.item_type
TupleItemType(t) == GetArgs(t)[1]

\* ------------------------------------------------------------- Strategy

\* Value(type, var_name, qual_name, metadata)
Value(type, var_name, qual_name, metadata) ==
    [type |-> type, var_name |-> var_name, qual_name |-> qual_name,
     metadata |-> metadata]

\* dataclasses.replace(value, type=actual_type)
ReplaceType(value, actual_type) == [value EXCEPT !.type = actual_type]

\* A child name that is always built with the default separator.
ChildVarNameDefaultSep(parent, ref) ==
    IF parent.var_name # NONE /\ parent.var_name # ""
    THEN parent.var_name \o "_" \o Upper(ref)
    ELSE Upper(ref)

\* Strategy.child_var_name; a None or empty parent name is falsy.
ChildVarName(parent, ref) ==
    LET this_name == Upper(ref)
    IN  IF parent.var_name # NONE /\ parent.var_name # ""
        THEN parent.var_name \o config.sep \o this_name
        ELSE this_name

\* A qualified name that uses the field form under every parent.
ChildQualNameDotted(parent, ref) == parent.qual_name \o "." \o ref

\* Strategy.child_qual_name
ChildQualName(parent, ref) ==
    IF IsDataclass(parent.type)
    THEN parent.qual_name \o "." \o ref
    ELSE parent.qual_name \o "[" \o ref \o "]"

\* Strategy.child_value
ChildValue(parent, ref, value_type, metadata) ==
    LET var_name == ChildVarName(parent, ref)
        qual_name == ChildQualName(parent, ref)
    IN  Value(value_type,
              IF metadata.given /\ metadata.name # NONE
              THEN metadata.name ELSE var_name,
              qual_name, metadata)

\* Strategy.root_value
RootValue(data_class) ==
    Value(DataT(data_class), config.prefix, data_class, NoMeta)

\* Loader.can_load of each loader of DEFAULT_LOADERS
CanLoad(loader, value) ==
    CASE loader = "custom" -> value.metadata.given /\ value.metadata.load # NONE
      [] loader = "optional" -> IsOptional(value.type)
      [] loader = "int" -> value.type.k = "int"
      [] loader = "float" -> value.type.k = "float"
      [] loader = "str" -> value.type.k = "str"
      [] loader = "bool" -> value.type.k = "bool"
      [] loader = "dataclass" -> IsDataclass(value.type)
      [] loader = "union" -> value.type.k = "union"
      [] loader = "list" -> value.type.k = "list"
      [] loader = "fixed_tuple" -> IsFixed(value.type)
      [] loader = "any_tuple" -> IsAnyLength(value.type)

\* DEFAULT_LOADERS, in order
DEFAULT_LOADERS ==
    << "custom", "optional", "int", "float", "str", "bool", "dataclass",
       "union", "list", "fixed_tuple", "any_tuple" >>

\* Strategy.resolve_loader: the first loader that can load the value;
\* "none" stands for raising UnsupportedValueType.
ResolveLoader(value) ==
    LET able == SelectSeq(DEFAULT_LOADERS, LAMBDA l : CanLoad(l, value))
    IN  IF Len(able) > 0 THEN able[1] ELSE "none"

\* ----------------------------------------------------------- VarBinding

\* A VarBinding in flight: its bound dict and the history of bind calls
\* (vars never changes and is the state variable).
Env(b, h) == [bound |-> b, binds |-> h]

\* len(self.bound)
BoundCount(env) == Cardinality(DOMAIN env.bound)

\* A bind that lacks the check of self.bound: a claimed key is recorded again.
BindOverwriting(env, value) ==
    IF value.var_name \notin DOMAIN vars
    THEN [ok |-> FALSE,
          err |-> MissingRequiredVar(value.var_name, value.qual_name),
          env |-> Env(env.bound,
                      Append(env.binds, [var_name |-> value.var_name,
                                         qual_name |-> value.qual_name,
                                         outcome |-> "missing"]))]
    ELSE [ok |-> TRUE,
          err |-> NoErr,
          env |-> Env([k \in DOMAIN env.bound \cup {value.var_name} |->
                          IF k = value.var_name THEN value ELSE env.bound[k]],
                      Append(env.binds, [var_name |-> value.var_name,
                                         qual_name |-> value.qual_name,
                                         outcome |-> "bound"]))]

\* A bind that checks self.bound before self.vars: a key that is claimed but
\* not in the input is an ambiguity.
BindLedgerFirst(env, value) ==
    IF value.var_name \in DOMAIN env.bound
    THEN [ok |-> FALSE,
          err |-> AmbiguousVarError(value.var_name,
                                    env.bound[value.var_name].qual_name,
                                    value.qual_name),
          env |-> Env(env.bound,
                      Append(env.binds, [var_name |-> value.var_name,
                                         qual_name |-> value.qual_name,
                                         outcome |-> "ambiguous"]))]
    ELSE IF value.var_name \notin DOMAIN vars
    THEN [ok |-> FALSE,
          err |-> MissingRequiredVar(value.var_name, value.qual_name),
          env |-> Env(env.bound,
                      Append(env.binds, [var_name |-> value.var_name,
                                         qual_name |-> value.qual_name,
                                         outcome |-> "missing"]))]
    ELSE [ok |-> TRUE,
          err |-> NoErr,
          env |-> Env([k \in DOMAIN env.bound \cup {value.var_name} |->
                          IF k = value.var_name THEN value ELSE env.bound[k]],
                      Append(env.binds, [var_name |-> value.var_name,
                                         qual_name |-> value.qual_name,
                                         outcome |-> "bound"]))]

\* A bind that, on a key claimed already, takes the first claim back before
\* it raises.
BindUnclaiming(env, value) ==
    IF value.var_name \notin DOMAIN vars
    THEN [ok |-> FALSE,
          err |-> MissingRequiredVar(value.var_name, value.qual_name),
          env |-> Env(env.bound,
                      Append(env.binds, [var_name |-> value.var_name,
                                         qual_name |-> value.qual_name,
                                         outcome |-> "missing"]))]
    ELSE IF value.var_name \in DOMAIN env.bound
    THEN [ok |-> FALSE,
          err |-> AmbiguousVarError(value.var_name,
                                    env.bound[value.var_name].qual_name,
                                    value.qual_name),
          env |-> Env([k \in DOMAIN env.bound \ {value.var_name} |-> env.bound[k]],
                      Append(env.binds, [var_name |-> value.var_name,
                                         qual_name |-> value.qual_name,
                                         outcome |-> "ambiguous"]))]
    ELSE [ok |-> TRUE,
          err |-> NoErr,
          env |-> Env([k \in DOMAIN env.bound \cup {value.var_name} |->
                          IF k = value.var_name THEN value ELSE env.bound[k]],
                      Append(env.binds, [var_name |-> value.var_name,
                                         qual_name |-> value.qual_name,
                                         outcome |-> "bound"]))]

\* VarBinding.bind
Bind(env, value) ==
    IF value.var_name \notin DOMAIN vars
    THEN [ok |-> FALSE,
          err |-> MissingRequiredVar(value.var_name, value.qual_name),
          env |-> Env(env.bound,
                      Append(env.binds, [var_name |-> value.var_name,
                                         qual_name |-> value.qual_name,
                                         outcome |-> "missing"]))]
    ELSE IF value.var_name \in DOMAIN env.bound
    THEN [ok |-> FALSE,
          err |-> AmbiguousVarError(value.var_name,
                                    env.bound[value.var_name].qual_name,
                                    value.qual_name),
          env |-> Env(env.bound,
                      Append(env.binds, [var_name |-> value.var_name,
                                         qual_name |-> value.qual_name,
                                         outcome |-> "ambiguous"]))]
    ELSE [ok |-> TRUE,
          err |-> NoErr,
          env |-> Env([k \in DOMAIN env.bound \cup {value.var_name} |->
                          IF k = value.var_name THEN value ELSE env.bound[k]],
                      Append(env.binds, [var_name |-> value.var_name,
                                         qual_name |-> value.qual_name,
                                         outcome |-> "bound"]))]

\* -------------------------------------------------------------- results

\* A load that returned val.
Ok(val, env, log) ==
    [ok |-> TRUE, val |-> val, err |-> NoErr, env |-> env, calls |-> log]

\* A load that raised err.
Raise(err, env, log) ==
    [ok |-> FALSE, val |-> VNone, err |-> err, env |-> env, calls |-> log]

\* An is_present that returned b / that raised err (resolve_loader raises
\* UnsupportedValueType inside is_present too).
Present(b) == [raised |-> FALSE, present |-> b, err |-> NoErr]
PresentRaise(err) == [raised |-> TRUE, present |-> FALSE, err |-> err]

\* One loader invocation, as the log of a step records it.
Call(loader, value, env, r) ==
    [loader |-> loader, value |-> value,
     before |-> DOMAIN env.bound, after |-> DOMAIN r.env.bound,
     ok |-> r.ok, val |-> r.val, err |-> r.err]

RECURSIVE LoaderIsPresent(_, _, _)
RECURSIVE LoaderLoad(_, _, _)
RECURSIVE DataClassLoadFrom(_, _, _, _, _)
RECURSIVE DataClassIsPresentFrom(_, _, _)
RECURSIVE UnionLoadFrom(_, _, _)
RECURSIVE UnionIsPresentFrom(_, _, _)
RECURSIVE ListLoop(_, _, _, _, _, _, _)
RECURSIVE AnyLengthTupleLoop(_, _, _, _, _, _, _)
RECURSIVE FixedLengthTupleLoadFrom(_, _, _, _, _)
RECURSIVE FixedLengthTupleIsPresentFrom(_, _, _)

\* is_present of the loader resolve_loader picks for value; a value no loader
\* can load raises UnsupportedValueType.
IsPresent(env, value) ==
    LET loader == ResolveLoader(value)
    IN  IF loader = "none"
        THEN PresentRaise(UnsupportedValueType(value.qual_name, value.type))
        ELSE LoaderIsPresent(loader, env, value)

\* Strategy.load: resolve the loader, then loader.load
StrategyLoad(env, value) ==
    LET loader == ResolveLoader(value)
    IN  IF loader = "none"
        THEN Raise(UnsupportedValueType(value.qual_name, value.type), env, <<>>)
        ELSE LoaderLoad(loader, env, value)

\* ------------------------------------------------------- scalar parsing

\* int(raw_value): the decimal literals of the inputs; anything else is a
\* ValueError.
IntLiterals == ("0" :> 0) @@ ("1" :> 1) @@ ("2" :> 2) @@ ("3" :> 3)

ParseInt(raw) ==
    IF raw \in DOMAIN IntLiterals
    THEN [ok |-> TRUE, val |-> VInt(IntLiterals[raw])]
    ELSE [ok |-> FALSE, val |-> VNone]

\* float(raw_value)
ParseFloat(raw) ==
    IF raw \in DOMAIN IntLiterals
    THEN [ok |-> TRUE, val |-> [t |-> "float", v |-> IntLiterals[raw]]]
    ELSE [ok |-> FALSE, val |-> VNone]

\* str(raw_value)
ParseStr(raw) == [ok |-> TRUE, val |-> VStr(raw)]

\* BooleanLoader.load, after the bind: upper-case, strip, compare
ParseBool(raw) ==
    LET normalized == Upper(raw)
    IN  IF normalized \in {"TRUE", "1", "YES"}
        THEN [ok |-> TRUE, val |-> VBool(TRUE)]
        ELSE IF normalized \in {"FALSE", "0", "NO"}
        THEN [ok |-> TRUE, val |-> VBool(FALSE)]
        ELSE [ok |-> FALSE, val |-> VNone]

\* self.type(raw_value) of BasicValueLoader
ParseBasic(kind, raw) ==
    CASE kind = "int" -> ParseInt(raw)
      [] kind = "float" -> ParseFloat(raw)
      [] kind = "str" -> ParseStr(raw)
      [] kind = "bool" -> ParseBool(raw)

\* value.metadata.load(raw).  json.loads gives the number of a decimal
\* literal and raises JSONDecodeError, a ValueError, on anything else; the
\* lookup in a dict gives the entry of a known name and raises KeyError on
\* anything else.
ParseCustom(parser, raw) ==
    IF raw \in DOMAIN IntLiterals
    THEN [ok |-> TRUE, val |-> VInt(IntLiterals[raw]), exception |-> NONE]
    ELSE [ok |-> FALSE, val |-> VNone,
          exception |-> IF parser = JsonLoads THEN "ValueError" ELSE "KeyError"]

\* ------------------------------------------------ BasicValueLoader etc.

\* BasicValueLoader.load and BooleanLoader.load
BasicValueLoad(kind, env, value) ==
    LET Parsed(b, parsed) ==
            IF parsed.ok THEN Ok(parsed.val, b.env, <<>>)
            ELSE Raise(InvalidVariableFormat(value.var_name, value.qual_name),
                       b.env, <<>>)
        AfterBind(b) ==
            IF ~b.ok THEN Raise(b.err, b.env, <<>>)
            ELSE Parsed(b, ParseBasic(kind, vars[value.var_name]))
    IN  AfterBind(Bind(env, value))

\* An is_present of a scalar that also asks the ledger: a claimed key is
\* not present.
BasicValueIsPresentUnclaimed(env, value) ==
    Present(value.var_name \in DOMAIN vars /\ value.var_name \notin DOMAIN env.bound)

\* BasicValueLoader.is_present
BasicValueIsPresent(env, value) == Present(value.var_name \in DOMAIN vars)

\* CustomLoader.load: only a ValueError of the parser is caught
CustomLoad(env, value) ==
    LET Parsed(b, parsed) ==
            IF parsed.ok THEN Ok(parsed.val, b.env, <<>>)
            ELSE IF parsed.exception = "ValueError"
            THEN Raise(InvalidVariableFormat(value.var_name, value.qual_name),
                       b.env, <<>>)
            ELSE Raise(ParserError(parsed.exception), b.env, <<>>)
        AfterBind(b) ==
            IF ~b.ok THEN Raise(b.err, b.env, <<>>)
            ELSE Parsed(b, ParseCustom(value.metadata.load, vars[value.var_name]))
    IN  AfterBind(Bind(env, value))

\* CustomLoader.is_present
CustomIsPresent(env, value) == Present(value.var_name \in DOMAIN vars)

\* ------------------------------------------------------ DataClassLoader

\* DataClassLoader._resolve_metadata: no entry is None, a string is
\* Metadata(name=string), a Metadata is itself
ResolveMetadata(data, field) ==
    IF ~field.metadata.given THEN NoMeta
    ELSE IF "plain" \in DOMAIN field.metadata
    THEN Meta(field.metadata.name, NONE)
    ELSE field.metadata

\* The outcomes of one iteration of the loop of DataClassLoader.load.
FieldSkipped(env) ==
    [ok |-> TRUE, skipped |-> TRUE, val |-> VNone, err |-> NoErr,
     env |-> env, calls |-> <<>>]
FieldLoaded(val, env, log) ==
    [ok |-> TRUE, skipped |-> FALSE, val |-> val, err |-> NoErr,
     env |-> env, calls |-> log]
FieldRaised(err, env, log) ==
    [ok |-> FALSE, skipped |-> FALSE, val |-> VNone, err |-> err,
     env |-> env, calls |-> log]

\* A field load that keeps what the field loader returned, whatever its
\* footprint.
LoadFieldLoadedAsIs(env, field, r) ==
    IF ~r.ok THEN FieldRaised(r.err, r.env, r.calls)
    ELSE FieldLoaded(r.val, r.env, r.calls)

\* A field load that recovers: a field loader that raised is answered with
\* the field default, when there is one.
LoadFieldLoadedRecovering(env, field, r) ==
    IF ~r.ok /\ HasDefault(field)
    THEN FieldLoaded(DefaultValue(field), r.env, r.calls)
    ELSE IF ~r.ok THEN FieldRaised(r.err, r.env, r.calls)
    ELSE IF BoundCount(r.env) - BoundCount(env) = 0 /\ HasDefault(field)
    THEN FieldLoaded(DefaultValue(field), r.env, r.calls)
    ELSE FieldLoaded(r.val, r.env, r.calls)

\* DataClassLoader.load, lines 253-263: r is what the field loader returned;
\* the field default replaces it when the load consumed no variable.
LoadFieldLoaded(env, field, r) ==
    IF ~r.ok THEN FieldRaised(r.err, r.env, r.calls)
    ELSE IF BoundCount(r.env) - BoundCount(env) = 0 /\ HasDefault(field)
    THEN FieldLoaded(DefaultValue(field), r.env, r.calls)
    ELSE FieldLoaded(r.val, r.env, r.calls)

\* A field load that never skips: an absent field with a default is loaded.
LoadFieldCheckedNoSkip(env, field, field_value, field_loader, is_present) ==
    IF is_present.raised THEN FieldRaised(is_present.err, env, <<>>)
    ELSE LoadFieldLoaded(env, field, LoaderLoad(field_loader, env, field_value))

\* A field load whose presence check claims the key it finds: is_present of
\* a scalar field binds the position before the load does.
LoadFieldCheckedClaiming(env, field, field_value, field_loader, is_present) ==
    IF is_present.raised THEN FieldRaised(is_present.err, env, <<>>)
    ELSE IF HasDefault(field) /\ ~is_present.present THEN FieldSkipped(env)
    ELSE LoadFieldLoaded(env, field,
            LoaderLoad(field_loader,
                       IF is_present.present
                          /\ field_loader \in {"int", "float", "str", "bool"}
                       THEN Bind(env, field_value).env ELSE env,
                       field_value))

\* DataClassLoader.load, lines 241-252: is_present is what the field loader
\* answered; a field with a default that is not present is skipped.
LoadFieldChecked(env, field, field_value, field_loader, is_present) ==
    IF is_present.raised THEN FieldRaised(is_present.err, env, <<>>)
    ELSE IF HasDefault(field) /\ ~is_present.present THEN FieldSkipped(env)
    ELSE LoadFieldLoaded(env, field, LoaderLoad(field_loader, env, field_value))

\* DataClassLoader.load, line 240: field_loader is the resolved loader.
LoadFieldResolved(env, field, field_value, field_loader) ==
    IF field_loader = "none"
    THEN FieldRaised(UnsupportedValueType(field_value.qual_name,
                                          field_value.type), env, <<>>)
    ELSE LoadFieldChecked(env, field, field_value, field_loader,
                          LoaderIsPresent(field_loader, env, field_value))

\* DataClassLoader.load, line 239: field_value is the field's position.
LoadFieldAt(env, field, field_value) ==
    LoadFieldResolved(env, field, field_value, ResolveLoader(field_value))

\* DataClassLoader.load, the body of the loop over the fields
LoadField(env, value, field) ==
    LoadFieldAt(env, field, ChildValue(value, field.name, field.type,
                                       ResolveMetadata(value, field)))

\* constructor_arguments[field.name] = loaded_value
SetArgument(arguments, name, val) ==
    [n \in DOMAIN arguments \cup {name} |->
        IF n = name THEN val ELSE arguments[n]]

\* data_class(**constructor_arguments): a field left out takes its default
Construct(data_class, arguments) ==
    VObj(data_class.name,
         [i \in 1..Len(Fields(data_class)) |->
             IF Fields(data_class)[i].name \in DOMAIN arguments
             THEN arguments[Fields(data_class)[i].name]
             ELSE DefaultValue(Fields(data_class)[i])])

\* DataClassLoader.load, the loop after field i: f is the field's outcome
DataClassLoadNext(value, i, arguments, log, field, f) ==
    IF ~f.ok THEN Raise(f.err, f.env, log \o f.calls)
    ELSE IF f.skipped
    THEN DataClassLoadFrom(f.env, value, i + 1, arguments, log)
    ELSE DataClassLoadFrom(f.env, value, i + 1,
                           SetArgument(arguments, field.name, f.val),
                           log \o f.calls)

\* DataClassLoader.load, from field i on
DataClassLoadFrom(env, value, i, arguments, log) ==
    IF i > Len(Fields(value.type))
    THEN Ok(Construct(value.type, arguments), env, log)
    ELSE DataClassLoadNext(value, i, arguments, log, Fields(value.type)[i],
                           LoadField(env, value, Fields(value.type)[i]))

\* DataClassLoader.load
DataClassLoad(env, value) == DataClassLoadFrom(env, value, 1, <<>>, <<>>)

\* DataClassLoader.is_present, the loop after the i-th required field
DataClassIsPresentNext(env, value, i, p) ==
    IF p.raised THEN p
    ELSE IF ~p.present THEN Present(FALSE)
    ELSE DataClassIsPresentFrom(env, value, i + 1)

\* DataClassLoader.is_present, from the i-th required field on
DataClassIsPresentFrom(env, value, i) ==
    IF i > Len(RequiredFields(value.type)) THEN Present(TRUE)
    ELSE DataClassIsPresentNext(env, value, i,
            IsPresent(env, ChildValue(value,
                                      RequiredFields(value.type)[i].name,
                                      RequiredFields(value.type)[i].type,
                                      NoMeta)))

\* DataClassLoader.is_present
DataClassIsPresent(env, value) == DataClassIsPresentFrom(env, value, 1)

\* ---------------------------------------------------------- UnionLoader

\* A union load that decodes its last alternative whether present or not.
UnionLoadCheckedLastAlways(env, value, i, casted, loader, p) ==
    IF p.raised THEN Raise(p.err, env, <<>>)
    ELSE IF p.present \/ i = Len(GetArgs(value.type))
    THEN LoaderLoad(loader, env, casted)
    ELSE UnionLoadFrom(env, value, i + 1)

\* A union load that never decodes its first alternative.
UnionLoadCheckedSkipFirst(env, value, i, casted, loader, p) ==
    IF p.raised THEN Raise(p.err, env, <<>>)
    ELSE IF p.present /\ i > 1 THEN LoaderLoad(loader, env, casted)
    ELSE UnionLoadFrom(env, value, i + 1)

\* UnionLoader.load, lines 303-304: p is the alternative's is_present
UnionLoadChecked(env, value, i, casted, loader, p) ==
    IF p.raised THEN Raise(p.err, env, <<>>)
    ELSE IF p.present THEN LoaderLoad(loader, env, casted)
    ELSE UnionLoadFrom(env, value, i + 1)

\* UnionLoader.load, line 302: loader is the alternative's loader
UnionLoadResolved(env, value, i, casted, loader) ==
    IF loader = "none"
    THEN Raise(UnsupportedValueType(casted.qual_name, casted.type), env, <<>>)
    ELSE UnionLoadChecked(env, value, i, casted, loader,
                          LoaderIsPresent(loader, env, casted))

\* UnionLoader.load, line 301: casted is the value under the alternative type
UnionLoadTry(env, value, i, casted) ==
    UnionLoadResolved(env, value, i, casted, ResolveLoader(casted))

\* UnionLoader.load, from the i-th alternative on
UnionLoadFrom(env, value, i) ==
    IF i > Len(GetArgs(value.type))
    THEN Raise(UnionLoadingError(value.qual_name, value.type), env, <<>>)
    ELSE UnionLoadTry(env, value, i, ReplaceType(value, GetArgs(value.type)[i]))

\* UnionLoader.load
UnionLoad(env, value) == UnionLoadFrom(env, value, 1)

\* UnionLoader.is_present, the loop after the i-th alternative
UnionIsPresentNext(env, value, i, p) ==
    IF p.raised THEN p
    ELSE IF p.present THEN Present(TRUE)
    ELSE UnionIsPresentFrom(env, value, i + 1)

\* UnionLoader.is_present, from the i-th alternative on
UnionIsPresentFrom(env, value, i) ==
    IF i > Len(GetArgs(value.type)) THEN Present(FALSE)
    ELSE UnionIsPresentNext(env, value, i,
            IsPresent(env, ReplaceType(value, GetArgs(value.type)[i])))

\* A union that always reports present.
UnionIsPresentAlways(env, value) == Present(TRUE)

\* UnionLoader.is_present
UnionIsPresent(env, value) == UnionIsPresentFrom(env, value, 1)

\* ----------------------------------------------------------- ListLoader

\* "length and current_index < length"
WithinLength(length, current_index) ==
    /\ length.t = "int"
    /\ length.v # 0
    /\ current_index < length.v

\* A list loop that keeps the item that claimed nothing before it ends.
ListLoopLoadedKeepingEmpty(env, value, item_loader, length, current_index, items, log, r) ==
    IF ~r.ok THEN Raise(r.err, r.env, log \o r.calls)
    ELSE IF BoundCount(r.env) - BoundCount(env) = 0
    THEN Ok(VList(Append(items, r.val)), r.env, log \o r.calls)
    ELSE ListLoop(r.env, value, item_loader, length, current_index + 1,
                  Append(items, r.val), log \o r.calls)

\* ListLoader.load, lines 346-351: r is what the item loader returned
ListLoopLoaded(env, value, item_loader, length, current_index, items, log, r) ==
    IF ~r.ok THEN Raise(r.err, r.env, log \o r.calls)
    ELSE IF BoundCount(r.env) - BoundCount(env) = 0
    THEN Ok(VList(items), r.env, log \o r.calls)
    ELSE ListLoop(r.env, value, item_loader, length, current_index + 1,
                  Append(items, r.val), log \o r.calls)

\* A list loop that loads the next item whether it is present or not.
ListLoopCheckedAlways(env, value, item_loader, length, current_index, items, log, current_item, p) ==
    IF p.raised THEN Raise(p.err, env, log)
    ELSE ListLoopLoaded(env, value, item_loader, length, current_index, items,
                        log, LoaderLoad(item_loader, env, current_item))

\* A list loop that steps over a missing item at index 0 instead of ending.
ListLoopCheckedSparse(env, value, item_loader, length, current_index, items, log, current_item, p) ==
    IF p.raised THEN Raise(p.err, env, log)
    ELSE IF ~(p.present \/ WithinLength(length, current_index))
    THEN IF current_index = 0
         THEN ListLoop(env, value, item_loader, length, 1, items, log)
         ELSE Ok(VList(items), env, log)
    ELSE ListLoopLoaded(env, value, item_loader, length, current_index, items,
                        log, LoaderLoad(item_loader, env, current_item))

\* ListLoader.load, lines 338-345: p is the item loader's is_present
ListLoopChecked(env, value, item_loader, length, current_index, items, log, current_item, p) ==
    IF p.raised THEN Raise(p.err, env, log)
    ELSE IF ~(p.present \/ WithinLength(length, current_index))
    THEN Ok(VList(items), env, log)
    ELSE ListLoopLoaded(env, value, item_loader, length, current_index, items,
                        log, LoaderLoad(item_loader, env, current_item))

\* ListLoader.load, the while loop at current_item
ListLoopAt(env, value, item_loader, length, current_index, items, log, current_item) ==
    ListLoopChecked(env, value, item_loader, length, current_index, items, log,
                    current_item,
                    LoaderIsPresent(item_loader, env, current_item))

\* ListLoader.load, the while loop
ListLoop(env, value, item_loader, length, current_index, items, log) ==
    ListLoopAt(env, value, item_loader, length, current_index, items, log,
               ChildValue(value, ToString(current_index),
                          GetArgs(value.type)[1], NoMeta))

\* ListLoader.load, line 337: item_loader is the resolved item loader
ListLoadStart(value, length, current_item, item_loader) ==
    IF item_loader = "none"
    THEN Raise(UnsupportedValueType(current_item.qual_name, current_item.type),
               length.env, length.calls)
    ELSE ListLoop(length.env, value, item_loader, length.val, 0, <<>>,
                  length.calls)

\* ListLoader.load, lines 334-336: current_item is the first item
ListLoadFirst(value, length, current_item) ==
    ListLoadStart(value, length, current_item, ResolveLoader(current_item))

\* ListLoader.load, after lines 330-331: length is the loaded Optional[int]
ListLoadMeasured(value, length) ==
    IF ~length.ok THEN length
    ELSE ListLoadFirst(value, length,
                       ChildValue(value, ToString(0), GetArgs(value.type)[1],
                                  NoMeta))

\* A list load whose LEN variable leaves no trace in the ledger.
ListLoadLengthUnclaimed(env, value) ==
    ListLoadMeasured(value,
        [StrategyLoad(env, ChildValue(value, LENGTH_ATTR, OptT(IntT), NoMeta))
            EXCEPT !.env = env])

\* ListLoader.load
ListLoad(env, value) ==
    ListLoadMeasured(value,
        StrategyLoad(env, ChildValue(value, LENGTH_ATTR, OptT(IntT), NoMeta)))

\* ListLoader.is_present
ListIsPresent(env, value) == Present(TRUE)

\* ----------------------------------------------- FixedLengthTupleLoader

\* FixedLengthTupleLoader.load, the loop after the i-th item
FixedLengthTupleLoadNext(value, i, items, log, r) ==
    IF ~r.ok THEN Raise(r.err, r.env, log \o r.calls)
    ELSE FixedLengthTupleLoadFrom(r.env, value, i + 1, Append(items, r.val),
                                  log \o r.calls)

\* FixedLengthTupleLoader.load, from the i-th item type on (index i - 1)
FixedLengthTupleLoadFrom(env, value, i, items, log) ==
    IF i > Len(GetArgs(value.type)) THEN Ok(VTuple(items), env, log)
    ELSE FixedLengthTupleLoadNext(value, i, items, log,
            StrategyLoad(env, ChildValue(value, ToString(i - 1),
                                         GetArgs(value.type)[i], NoMeta)))

\* FixedLengthTupleLoader.load
FixedLengthTupleLoad(env, value) ==
    FixedLengthTupleLoadFrom(env, value, 1, <<>>, <<>>)

\* FixedLengthTupleLoader.is_present, the loop after the i-th item
FixedLengthTupleIsPresentNext(env, value, i, p) ==
    IF p.raised THEN p
    ELSE IF ~p.present THEN Present(FALSE)
    ELSE FixedLengthTupleIsPresentFrom(env, value, i + 1)

\* FixedLengthTupleLoader.is_present, from the i-th item type on
FixedLengthTupleIsPresentFrom(env, value, i) ==
    IF i > Len(GetArgs(value.type)) THEN Present(TRUE)
    ELSE FixedLengthTupleIsPresentNext(env, value, i,
            IsPresent(env, ChildValue(value, ToString(i - 1),
                                      GetArgs(value.type)[i], NoMeta)))

\* FixedLengthTupleLoader.is_present
FixedLengthTupleIsPresent(env, value) ==
    FixedLengthTupleIsPresentFrom(env, value, 1)

\* ------------------------------------------------- AnyLengthTupleLoader

\* AnyLengthTupleLoader.load, lines 424-429: r is what the item loader returned
AnyLengthTupleLoopLoaded(env, value, item_loader, length, current_index, items, log, r) ==
    IF ~r.ok THEN Raise(r.err, r.env, log \o r.calls)
    ELSE IF BoundCount(r.env) - BoundCount(env) = 0
    THEN Ok(VTuple(items), r.env, log \o r.calls)
    ELSE AnyLengthTupleLoop(r.env, value, item_loader, length,
                            current_index + 1, Append(items, r.val),
                            log \o r.calls)

\* A tuple loop that does not read the declared length: it ends on the
\* first item that is not present.
AnyLengthTupleLoopCheckedOpen(env, value, item_loader, length, current_index, items, log, current_item, p) ==
    IF p.raised THEN Raise(p.err, env, log)
    ELSE IF ~p.present
    THEN Ok(VTuple(items), env, log)
    ELSE AnyLengthTupleLoopLoaded(env, value, item_loader, length,
                                  current_index, items, log,
                                  LoaderLoad(item_loader, env, current_item))

\* AnyLengthTupleLoader.load, lines 416-423: p is the item loader's is_present
AnyLengthTupleLoopChecked(env, value, item_loader, length, current_index, items, log, current_item, p) ==
    IF p.raised THEN Raise(p.err, env, log)
    ELSE IF ~(p.present \/ WithinLength(length, current_index))
    THEN Ok(VTuple(items), env, log)
    ELSE AnyLengthTupleLoopLoaded(env, value, item_loader, length,
                                  current_index, items, log,
                                  LoaderLoad(item_loader, env, current_item))

\* AnyLengthTupleLoader.load, the while loop at current_item
AnyLengthTupleLoopAt(env, value, item_loader, length, current_index, items, log, current_item) ==
    AnyLengthTupleLoopChecked(env, value, item_loader, length, current_index,
                              items, log, current_item,
                              LoaderIsPresent(item_loader, env, current_item))

\* AnyLengthTupleLoader.load, the while loop
AnyLengthTupleLoop(env, value, item_loader, length, current_index, items, log) ==
    AnyLengthTupleLoopAt(env, value, item_loader, length, current_index, items,
                         log, ChildValue(value, ToString(current_index),
                                         TupleItemType(value.type), NoMeta))

\* AnyLengthTupleLoader.load, line 414: item_loader is the item loader
AnyLengthTupleLoadStart(value, length, current_item, item_loader) ==
    IF item_loader = "none"
    THEN Raise(UnsupportedValueType(current_item.qual_name, current_item.type),
               length.env, length.calls)
    ELSE AnyLengthTupleLoop(length.env, value, item_loader, length.val, 0,
                            <<>>, length.calls)

\* AnyLengthTupleLoader.load, lines 411-413: current_item is the first item
AnyLengthTupleLoadFirst(value, length, current_item) ==
    AnyLengthTupleLoadStart(value, length, current_item,
                            ResolveLoader(current_item))

\* AnyLengthTupleLoader.load, after lines 408-409: length is the loaded
\* Optional[int]
AnyLengthTupleLoadMeasured(value, length) ==
    IF ~length.ok THEN length
    ELSE AnyLengthTupleLoadFirst(value, length,
                                 ChildValue(value, ToString(0),
                                            TupleItemType(value.type), NoMeta))

\* AnyLengthTupleLoader.load
AnyLengthTupleLoad(env, value) ==
    AnyLengthTupleLoadMeasured(value,
        StrategyLoad(env, ChildValue(value, LENGTH_ATTR, OptT(IntT), NoMeta)))

\* AnyLengthTupleLoader.is_present
AnyLengthTupleIsPresent(env, value) == Present(TRUE)

\* ------------------------------------------------------- OptionalLoader

\* An Optional that returns what the inner loader returned, whatever its
\* footprint.
OptionalLoadLoadedAsIs(env, r) == r

\* OptionalLoader.load, lines 460-469: r is what the inner loader returned;
\* the inner value if the load consumed a variable, else None
OptionalLoadLoaded(env, r) ==
    IF ~r.ok THEN r
    ELSE IF BoundCount(r.env) - BoundCount(env) > 0 THEN r
    ELSE Ok(VNone, r.env, r.calls)

\* An Optional that loads its inner type whether it is present or not.
OptionalLoadCheckedAlways(env, actual_value, loader, p) ==
    IF p.raised THEN Raise(p.err, env, <<>>)
    ELSE OptionalLoadLoaded(env, LoaderLoad(loader, env, actual_value))

\* OptionalLoader.load, lines 459-461: p is the inner loader's is_present
OptionalLoadChecked(env, actual_value, loader, p) ==
    IF p.raised THEN Raise(p.err, env, <<>>)
    ELSE IF ~p.present THEN Ok(VNone, env, <<>>)
    ELSE OptionalLoadLoaded(env, LoaderLoad(loader, env, actual_value))

\* OptionalLoader.load, line 458: loader is the inner loader
OptionalLoadResolved(env, actual_value, loader) ==
    IF loader = "none"
    THEN Raise(UnsupportedValueType(actual_value.qual_name, actual_value.type),
               env, <<>>)
    ELSE OptionalLoadChecked(env, actual_value, loader,
                             LoaderIsPresent(loader, env, actual_value))

\* OptionalLoader.load, lines 456-457: actual_value is the inner position
OptionalLoadInner(env, actual_value) ==
    OptionalLoadResolved(env, actual_value, ResolveLoader(actual_value))

\* OptionalLoader.load, lines 452-453: s is the load of the sentinel, whose
\* value is dropped
OptionalLoadExplicit(s) == IF ~s.ok THEN s ELSE Ok(VNone, s.env, s.calls)

\* An Optional that ignores its sentinel.
OptionalLoadSentinelIgnored(env, value, is_none_value, is_none_loader) ==
    OptionalLoadInner(env, ReplaceType(value, RemoveOptional(value.type)))

\* OptionalLoader.load, lines 450-452: the sentinel decides
OptionalLoadSentinel(env, value, is_none_value, is_none_loader) ==
    IF LoaderIsPresent(is_none_loader, env, is_none_value).present
    THEN OptionalLoadExplicit(LoaderLoad(is_none_loader, env, is_none_value))
    ELSE OptionalLoadInner(env, ReplaceType(value, RemoveOptional(value.type)))

\* OptionalLoader.load, line 449: is_none_value is the sentinel's position
OptionalLoadAt(env, value, is_none_value) ==
    OptionalLoadSentinel(env, value, is_none_value, ResolveLoader(is_none_value))

\* OptionalLoader.load
OptionalLoad(env, value) ==
    OptionalLoadAt(env, value, ChildValue(value, IS_NONE, StrT, NoMeta))

\* OptionalLoader.is_present
OptionalIsPresent(env, value) == Present(TRUE)

\* ------------------------------------------------------------- dispatch

\* loader.is_present(env, value, strategy)
LoaderIsPresent(loader, env, value) ==
    CASE loader \in {"int", "float", "str", "bool"} -> BasicValueIsPresent(env, value)
      [] loader = "custom" -> CustomIsPresent(env, value)
      [] loader = "optional" -> OptionalIsPresent(env, value)
      [] loader = "dataclass" -> DataClassIsPresent(env, value)
      [] loader = "union" -> UnionIsPresent(env, value)
      [] loader = "list" -> ListIsPresent(env, value)
      [] loader = "fixed_tuple" -> FixedLengthTupleIsPresent(env, value)
      [] loader = "any_tuple" -> AnyLengthTupleIsPresent(env, value)

\* The log of a finished invocation: the nested invocations, then itself.
Logged(loader, env, value, r) ==
    [r EXCEPT !.calls = Append(r.calls, Call(loader, value, env, r))]

\* loader.load(env, value, strategy); the invocation is added to the log
LoaderLoad(loader, env, value) ==
    Logged(loader, env, value,
           CASE loader \in {"int", "float", "str", "bool"} ->
                   BasicValueLoad(loader, env, value)
             [] loader = "custom" -> CustomLoad(env, value)
             [] loader = "optional" -> OptionalLoad(env, value)
             [] loader = "dataclass" -> DataClassLoad(env, value)
             [] loader = "union" -> UnionLoad(env, value)
             [] loader = "list" -> ListLoad(env, value)
             [] loader = "fixed_tuple" -> FixedLengthTupleLoad(env, value)
             [] loader = "any_tuple" -> AnyLengthTupleLoad(env, value))

\* ------------------------------------------------------------- from_env

\* The raw strings an input variable may hold.
RawValues == {"0", "2", "x"}

RECURSIVE Positions(_)
\* The positions below a value that the loaders can bind: the scalar leaves,
\* the IS_NONE__ sentinels and the LEN attributes, list and tuple items up to
\* index MaxIndex.
Positions(value) ==
    LET ItemPositions(t) ==
            UNION {Positions(ChildValue(value, ToString(i), t, NoMeta)) :
                      i \in 0..MaxIndex}
        LengthPositions ==
            Positions(ChildValue(value, LENGTH_ATTR, OptT(IntT), NoMeta))
        Below(loader) ==
            CASE loader \in {"int", "float", "str", "bool", "custom"} -> {value}
              [] loader = "optional" ->
                    {ChildValue(value, IS_NONE, StrT, NoMeta)}
                    \cup Positions(ReplaceType(value, RemoveOptional(value.type)))
              [] loader = "dataclass" ->
                    UNION {Positions(ChildValue(value, f.name, f.type,
                                                ResolveMetadata(value, f))) :
                              f \in {Fields(value.type)[i] :
                                        i \in 1..Len(Fields(value.type))}}
              [] loader = "union" ->
                    UNION {Positions(ReplaceType(value, GetArgs(value.type)[i])) :
                              i \in 1..Len(GetArgs(value.type))}
              [] loader = "list" ->
                    LengthPositions \cup ItemPositions(GetArgs(value.type)[1])
              [] loader = "any_tuple" ->
                    LengthPositions \cup ItemPositions(TupleItemType(value.type))
              [] loader = "fixed_tuple" ->
                    UNION {Positions(ChildValue(value, ToString(i - 1),
                                                GetArgs(value.type)[i], NoMeta)) :
                              i \in 1..Len(GetArgs(value.type))}
              [] OTHER -> {}
    IN  Below(ResolveLoader(value))

\* The variable names the loaders can read for a value.
KeysOf(value) == {p.var_name : p \in Positions(value)}

\* The configurations from_env is called with: Config() for every class;
\* a prefix, an empty prefix and a separator of two characters for the
\* classes of test_prefix and test_custom_separator.
Configs(data_class) ==
    IF data_class \in {"Prefixed", "Separated"}
    THEN {Config(NONE, "_"), Config("PREFIX", "_"), Config("", "_"),
          Config(NONE, "__"), Config("PREFIX", "__")}
    ELSE IF data_class \in {"OverrideShort", "OverrideNested"}
    THEN {Config(NONE, "_"), Config("PREFIX", "_")}
    ELSE {Config(NONE, "_")}

\* Variables of the environment that the tests set and that the configured
\* decode may not read: the names under the other configurations.
ExtraKeys(data_class) ==
    CASE data_class = "Prefixed" -> {"VALUE", "PREFIX_VALUE"}
      [] data_class = "Separated" -> {"NESTED_VALUE", "NESTED__VALUE", "LIST__0"}
      [] data_class = "OverrideShort" ->
            {"FIELD_NAME", "PREFIX_FIELD_NAME", "PREFIX_OVERRIDE_NAME"}
      [] data_class = "OverrideMeta" -> {"FIELD_NAME"}
      [] data_class = "OverrideNested" -> {"NESTED_VALUE", "PREFIX_custom_VALUE"}
      [] data_class = "OptionalHolder" -> {"INNER_FIELD_NAME"}
      [] data_class = "CustomFormat" -> {"JSON_VALUE_0", "JSON_VALUE_LEN"}
      [] data_class = "CustomKinds" ->
            {"OPTIONAL_IS_NONE__", "NESTED_VALUE", "UNION_FIELD"}
      [] data_class = "OptionalCustom" -> {"INNER_ITEMS_0"}
      [] OTHER -> {}

\* The input mappings from_env is called with: at most MaxKeys variables.
Inputs(data_class) ==
    UNION {[S -> RawValues] :
              S \in {T \in SUBSET (KeysOf(RootValue(data_class))
                                       \cup ExtraKeys(data_class)) :
                        Cardinality(T) <= MaxKeys}}

\* The env argument of from_env: None (the default) or a mapping.
NoneArg == [given |-> FALSE, map |-> <<>>]
MappingArg(map) == [given |-> TRUE, map |-> map]

\* The arguments from_env is called with: None, the empty mapping and every
\* input mapping.
EnvArgs(data_class) == {NoneArg} \cup {MappingArg(m) : m \in Inputs(data_class)}

\* bool(env) of "env or os.environ": None and the empty mapping are false
Truthy(arg) == arg.given /\ DOMAIN arg.map # {}

\* The environment of the process that defines every variable of the class.
FullEnviron(data_class) ==
    [k \in KeysOf(RootValue(data_class)) \cup ExtraKeys(data_class) |-> "2"]

\* The environments of the process: next to an argument that from_env
\* uses, the one that defines every variable; else the empty one and those
\* of one variable.
Environs(data_class, arg) ==
    IF Truthy(arg) THEN {FullEnviron(data_class)}
    ELSE {m \in Inputs(data_class) : Cardinality(DOMAIN m) <= 1}

\* from_env, line 18: env = env or os.environ
EnvOrEnviron(arg, os_environ) == IF Truthy(arg) THEN arg.map ELSE os_environ

\* from_env, up to the call of the root loader (line 24): config is the
\* strategy's Config, vars is the mapping VarBinding receives, its ledger is
\* empty.
Init ==
    /\ root \in RootClasses
    /\ config \in Configs(root)
    /\ envArg \in EnvArgs(root)
    /\ environ \in Environs(root, envArg)
    /\ vars = EnvOrEnviron(envArg, environ)
    /\ bound = <<>>
    /\ binds = <<>>
    /\ idx = 1
    /\ args = <<>>
    /\ pc = "load"
    /\ result = VNone
    /\ error = NoErr
    /\ calls = <<>>

\* The root loader's position in its loop.
RootFields == Fields(DataT(root))
CurrentEnv == Env(bound, binds)
Step == LoadField(CurrentEnv, RootValue(root), RootFields[idx])

\* The root loader's own invocation, as the log records it on its end.
RootCall(r) == Call("dataclass", RootValue(root), Env(<<>>, <<>>), r)

\* DataClassLoader.load on the root: a field that has a default and is not
\* present is skipped.
SkipField ==
    LET Skip(step) ==
            /\ step.ok /\ step.skipped
            /\ idx' = idx + 1
            /\ UNCHANGED <<root, config, envArg, environ, vars, bound, binds, args, pc, result, error, calls>>
    IN  /\ pc = "load"
        /\ idx <= Len(RootFields)
        /\ Skip(Step)

\* DataClassLoader.load on the root: a field is loaded.
LoadRootField ==
    LET Load(step) ==
            /\ step.ok /\ ~step.skipped
            /\ bound' = step.env.bound
            /\ binds' = step.env.binds
            /\ args' = SetArgument(args, RootFields[idx].name, step.val)
            /\ calls' = calls \o step.calls
            /\ idx' = idx + 1
            /\ UNCHANGED <<root, config, envArg, environ, vars, pc, result, error>>
    IN  /\ pc = "load"
        /\ idx <= Len(RootFields)
        /\ Load(Step)

\* DataClassLoader.load on the root: loading a field raises, and the
\* exception leaves from_env.
RaiseError ==
    LET Fail(step) ==
            /\ ~step.ok
            /\ bound' = step.env.bound
            /\ binds' = step.env.binds
            /\ pc' = "error"
            /\ error' = step.err
            /\ calls' = Append(calls \o step.calls,
                               RootCall(Raise(step.err, step.env, <<>>)))
            /\ UNCHANGED <<root, config, envArg, environ, vars, idx, args, result>>
    IN  /\ pc = "load"
        /\ idx <= Len(RootFields)
        /\ Fail(Step)

\* DataClassLoader.load on the root: return data_class(**constructor_arguments)
ReturnRoot ==
    LET Return(val) ==
            /\ pc' = "done"
            /\ result' = val
            /\ calls' = Append(calls, RootCall(Ok(val, CurrentEnv, <<>>)))
            /\ UNCHANGED <<root, config, envArg, environ, vars, bound, binds, idx, args, error>>
    IN  /\ pc = "load"
        /\ idx > Len(RootFields)
        /\ Return(Construct(DataT(root), args))

Next == SkipField \/ LoadRootField \/ RaiseError \/ ReturnRoot

Spec == Init /\ [][Next]_allVars

\* ------------------------------------------------- reading the history

\* The loader invocations completed so far.
CallSet == {calls[i] : i \in 1..Len(calls)}
DataClassCalls == {c \in CallSet : c.loader = "dataclass"}
OptionalCalls == {c \in CallSet : c.loader = "optional"}
SequenceCalls == {c \in CallSet : c.loader \in {"list", "any_tuple"}}

\* An empty ledger; is_present of every loader reads only env.vars.
NoEnv == Env(<<>>, <<>>)

\* The position of the i-th field of the record a DataClassLoader call decodes.
FieldValue(d, i) ==
    ChildValue(d.value, Fields(d.value.type)[i].name,
               Fields(d.value.type)[i].type,
               ResolveMetadata(d.value, Fields(d.value.type)[i]))

\* The value the record returned by call d holds under its i-th field.
FieldOf(d, i) == d.val.v.args[i]

\* The keys claimed, so far, by the positions below a value.
SubtreeClaims(value) == {k \in DOMAIN bound : bound[k] \in Positions(value)}

\* The sentinel and the inner position of an Optional position.
SentinelOf(value) == ChildValue(value, IS_NONE, StrT, NoMeta)
InnerOf(value) == ReplaceType(value, RemoveOptional(value.type))

\* An exception is the AmbiguousVarError on a key between a first and a
\* second qualified name.
IsAmbiguity(err, key, first, second) ==
    /\ err.kind = "AmbiguousVarError"
    /\ err.var_name = key
    /\ err.first_qual_name = first
    /\ err.qual_name = second

\* The indices of the bind calls that recorded a claim.
Claims == {j \in 1..Len(binds) : binds[j].outcome = "bound"}

\* ------------------------------------------------------------------ C1

\* C1: at-most-one binding.  No key is recorded as a claim twice: after a
\* bind recorded a key, every later bind of that key is refused with
\* AmbiguousVarError and the decode ends with that error; the ledger holds
\* exactly the recorded keys, each once.
C1_AtMostOneBinding ==
    /\ \A i, j \in 1..Len(binds) :
          (i < j /\ i \in Claims /\ binds[i].var_name = binds[j].var_name)
              => /\ binds[j].outcome = "ambiguous"
                 /\ pc = "error"
                 /\ error.kind = "AmbiguousVarError"
                 /\ error.var_name = binds[j].var_name
    /\ DOMAIN bound = {binds[j].var_name : j \in Claims}
    /\ Cardinality(DOMAIN bound) = Cardinality(Claims)
    /\ \A j \in Claims : bound[binds[j].var_name].qual_name = binds[j].qual_name

\* A second position attempted to claim a key and was refused.
C1_Witness ==
    \E i, j \in 1..Len(binds) :
        /\ i < j
        /\ i \in Claims
        /\ binds[i].var_name = binds[j].var_name
        /\ binds[j].outcome = "ambiguous"

\* ------------------------------------------------------------------ C2

\* C2: when a second position binds a key that a first position claimed, the
\* decode fails with AmbiguousVarError carrying the key, the qualified name
\* of the first claimant and then that of the second (qualified names start
\* with the class name).  test_ambiguity: NESTED_VALUE between nested.value
\* and nested_value; test_ambiguity_list: LIST_0 between list[0] and list_0.
C2_AmbiguityNamesBothClaimants ==
    /\ \A j \in 1..Len(binds) :
          (\E i \in Claims : i < j /\ binds[i].var_name = binds[j].var_name)
              => /\ j = Len(binds)
                 /\ pc = "error"
                 /\ \E i \in Claims :
                       /\ i < j
                       /\ binds[i].var_name = binds[j].var_name
                       /\ binds[i].qual_name # binds[j].qual_name
                       /\ IsAmbiguity(error, binds[j].var_name,
                                      binds[i].qual_name, binds[j].qual_name)
    /\ (root = "Ambiguity" /\ DOMAIN vars = {"NESTED_VALUE"})
          => /\ pc # "done"
             /\ pc = "error" =>
                   IsAmbiguity(error, "NESTED_VALUE", "Ambiguity.nested.value",
                               "Ambiguity.nested_value")
    /\ (root = "AmbiguityList" /\ DOMAIN vars = {"LIST_0"} /\ vars["LIST_0"] # "x")
          => /\ pc # "done"
             /\ pc = "error" =>
                   IsAmbiguity(error, "LIST_0", "AmbiguityList.list[0]",
                               "AmbiguityList.list_0")

\* The decode of test_ambiguity_list has failed on LIST_0.
C2_Witness ==
    /\ root = "AmbiguityList"
    /\ DOMAIN vars = {"LIST_0"}
    /\ pc = "error"
    /\ IsAmbiguity(error, "LIST_0", "AmbiguityList.list[0]",
                   "AmbiguityList.list_0")

\* ------------------------------------------------------------------ C3

\* C3: zero-footprint preservation of the field default.  In every record a
\* DataClassLoader returned, a field that has a default and below which no
\* key was claimed holds the field default, whatever its type's own default.
C3_ZeroFootprintKeepsFieldDefault ==
    \A d \in DataClassCalls :
        d.ok =>
            \A i \in 1..Len(Fields(d.value.type)) :
                (/\ HasDefault(Fields(d.value.type)[i])
                 /\ SubtreeClaims(FieldValue(d, i)) = {})
                    => FieldOf(d, i) = DefaultValue(Fields(d.value.type)[i])

\* A field with a default was decoded, its loader claimed nothing and
\* returned a value other than the field default.
C3_Witness ==
    \E d \in DataClassCalls :
        /\ d.ok
        /\ \E i \in 1..Len(Fields(d.value.type)) :
              /\ HasDefault(Fields(d.value.type)[i])
              /\ \E fc \in CallSet :
                    /\ fc.value = FieldValue(d, i)
                    /\ fc.ok
                    /\ fc.after = fc.before
                    /\ fc.val # DefaultValue(Fields(d.value.type)[i])
              /\ FieldOf(d, i) = DefaultValue(Fields(d.value.type)[i])

\* ------------------------------------------------------------------ C4

\* C4: a record field that has a default and whose loader reports not
\* present is skipped: its loader is never invoked, no key below the field is
\* claimed, and the returned record holds the field default.  With FIELD_0
\* and FIELD_1 but no FIELD_2, the fixed tuple of
\* test_incomplete_fixed_tuple_with_default is the field default and both
\* keys stay unclaimed.
C4_AbsentFieldWithDefaultIsSkipped ==
    /\ \A d \in DataClassCalls :
          \A i \in 1..Len(Fields(d.value.type)) :
              (/\ HasDefault(Fields(d.value.type)[i])
               /\ ~IsPresent(NoEnv, FieldValue(d, i)).raised
               /\ ~IsPresent(NoEnv, FieldValue(d, i)).present)
                  => /\ \A fc \in CallSet : fc.value # FieldValue(d, i)
                     /\ SubtreeClaims(FieldValue(d, i)) = {}
                     /\ d.ok => FieldOf(d, i) =
                                    DefaultValue(Fields(d.value.type)[i])
    /\ (/\ root = "FixedDefault"
        /\ {"FIELD_0", "FIELD_1"} \subseteq DOMAIN vars
        /\ "FIELD_2" \notin DOMAIN vars)
          => /\ pc # "error"
             /\ bound = <<>>
             /\ pc = "done" =>
                   result = VObj("FixedDefault",
                                 <<VTuple(<<VInt(0), VStr(""), VBool(FALSE)>>)>>)

\* The decode of test_incomplete_fixed_tuple_with_default has returned.
C4_Witness ==
    /\ root = "FixedDefault"
    /\ DOMAIN vars = {"FIELD_0", "FIELD_1"}
    /\ pc = "done"
    /\ result = VObj("FixedDefault",
                     <<VTuple(<<VInt(0), VStr(""), VBool(FALSE)>>)>>)

\* ------------------------------------------------------------------ C5

HasParser(field) == field.metadata.given /\ field.metadata.load # NONE

RECURSIVE Producible(_)
\* The types a value of which is produced with no input: Optional, list,
\* any-length tuple, a record whose fields have defaults or such types (and
\* then no custom parser), a fixed tuple of such types.
Producible(t) ==
    CASE IsOptional(t) -> TRUE
      [] t.k = "list" -> TRUE
      [] IsAnyLength(t) -> TRUE
      [] IsDataclass(t) ->
            \A i \in 1..Len(Fields(t)) :
                \/ HasDefault(Fields(t)[i])
                \/ ~HasParser(Fields(t)[i]) /\ Producible(Fields(t)[i].type)
      [] IsFixed(t) -> \A i \in 1..Len(GetArgs(t)) : Producible(GetArgs(t)[i])
      [] OTHER -> FALSE

RECURSIVE TypeDefault(_)
\* The value of a producible type on no input: null, [], (), the record of
\* the field defaults (else of the fields' type defaults), the tuple of the
\* elements' defaults.
TypeDefault(t) ==
    CASE IsOptional(t) -> VNone
      [] t.k = "list" -> VList(<<>>)
      [] IsAnyLength(t) -> VTuple(<<>>)
      [] IsDataclass(t) ->
            VObj(t.name,
                 [i \in 1..Len(Fields(t)) |->
                     IF HasDefault(Fields(t)[i])
                     THEN DefaultValue(Fields(t)[i])
                     ELSE TypeDefault(Fields(t)[i].type)])
      [] IsFixed(t) ->
            VTuple([i \in 1..Len(GetArgs(t)) |-> TypeDefault(GetArgs(t)[i])])
      [] OTHER -> VNone

\* C6: empty-composite totality.  On the empty input mapping, the decode of
\* a record whose fields all have defaults or producible types raises
\* nothing, and returns the record of the field defaults where they exist,
\* else of null, [], (), the all-default record, the tuple of defaults.
C6_EmptyInputDecodes ==
    (DOMAIN vars = {} /\ Producible(DataT(root)))
        => /\ pc # "error"
           /\ bound = <<>>
           /\ pc = "done" => result = TypeDefault(DataT(root))

\* The decode of test_type_specific_default_for_fields has returned on the
\* empty input mapping.
C6_Witness ==
    /\ DOMAIN vars = {}
    /\ root = "TypeDefaults"
    /\ pc = "done"
    /\ result = VObj("TypeDefaults",
                     << VObj("NestedDefault", <<VStr("nested-default")>>),
                        VTuple(<<>>),
                        VTuple(<< VObj("NestedDefault", <<VStr("nested-default")>>),
                                  VObj("NestedDefault", <<VStr("nested-default")>>) >>),
                        VNone >>)

\* ------------------------------------------------------------------ C7

\* C7, as the specification states it: whenever the sentinel key of an
\* Optional is in the input, the decode of the Optional claims exactly the
\* sentinel key and returns null.
C7_SentinelAlwaysGivesNull ==
    \A c \in OptionalCalls :
        SentinelOf(c.value).var_name \in DOMAIN vars
            => /\ c.ok
               /\ c.val = VNone
               /\ c.after = c.before \cup {SentinelOf(c.value).var_name}

\* C7, as the code has it: when the sentinel key of an Optional is in the
\* input, the Optional binds the sentinel and nothing else.  If no other
\* position claimed the sentinel key before, the decode claims exactly that
\* key and returns null, whatever the sentinel's value and the keys of the
\* inner type, which is never decoded; a record field with a default then
\* holds null, not the field default.  If another position claimed the key
\* before, the decode raises AmbiguousVarError on the sentinel key.
C7_SentinelGivesNullOrAmbiguity ==
    /\ \A c \in OptionalCalls :
          SentinelOf(c.value).var_name \in DOMAIN vars
              => /\ \A n \in CallSet : n.value # InnerOf(c.value)
                 /\ IF SentinelOf(c.value).var_name \in c.before
                    THEN /\ ~c.ok
                         /\ c.after = c.before
                         /\ IsAmbiguity(c.err,
                                SentinelOf(c.value).var_name,
                                bound[SentinelOf(c.value).var_name].qual_name,
                                SentinelOf(c.value).qual_name)
                    ELSE /\ c.ok
                         /\ c.val = VNone
                         /\ c.after = c.before \cup {SentinelOf(c.value).var_name}
                         /\ bound[SentinelOf(c.value).var_name] =
                                SentinelOf(c.value)
    /\ \A d \in DataClassCalls :
          d.ok =>
              \A i \in 1..Len(Fields(d.value.type)) :
                  (/\ IsOptional(Fields(d.value.type)[i].type)
                   /\ ~HasParser(Fields(d.value.type)[i])
                   /\ SentinelOf(FieldValue(d, i)).var_name \in DOMAIN vars)
                      => FieldOf(d, i) = VNone

\* test_none_instead_of_field_default, with the inner key in the input too:
\* the field holds null, the inner key is unclaimed.
C7_Witness ==
    /\ root = "NoneOrDefault"
    /\ DOMAIN vars = {"STRING_IS_NONE__", "STRING"}
    /\ pc = "done"
    /\ FieldOf([val |-> result], 2) = VNone
    /\ DOMAIN bound = {"STRING_IS_NONE__"}

\* ------------------------------------------------------------------ C8

\* C8: without the sentinel key in the input, an Optional decodes its inner
\* type only if the inner loader reports present.  If it is not present the
\* Optional returns null and claims nothing; if the inner decode returns, the
\* Optional returns the inner value when that decode claimed a key and null
\* when it claimed none; if the inner decode raises, so does the Optional.
\* Optional[Nested] is null on the empty input and a Nested as soon as a key
\* of Nested is in the input.
C8_OptionalWithoutSentinel ==
    /\ \A c \in OptionalCalls :
          SentinelOf(c.value).var_name \notin DOMAIN vars
              => IF IsPresent(NoEnv, InnerOf(c.value)).present
                 THEN \E n \in CallSet :
                         /\ n.value = InnerOf(c.value)
                         /\ n.before = c.before
                         /\ n.after = c.after
                         /\ n.ok = c.ok
                         /\ ~n.ok => c.err = n.err
                         /\ n.ok => c.val = IF n.after # n.before
                                            THEN n.val ELSE VNone
                 ELSE /\ \A n \in CallSet : n.value # InnerOf(c.value)
                      /\ c.ok
                      /\ c.val = VNone
                      /\ c.after = c.before
    /\ (root = "OptionalNested" /\ pc = "done")
          => FieldOf([val |-> result], 1) =
                CASE DOMAIN vars = {} -> VNone
                  [] "NESTED_IS_NONE__" \in DOMAIN vars -> VNone
                  [] "NESTED_VALUE_IS_NONE__" \in DOMAIN vars ->
                        VObj("Nested", <<VNone>>)
                  [] OTHER -> VObj("Nested", <<VStr(vars["NESTED_VALUE"])>>)

\* An Optional decoded its inner type, which claimed nothing and returned a
\* value that is not null, and the Optional returned null.
C8_Witness ==
    \E c \in OptionalCalls :
        /\ SentinelOf(c.value).var_name \notin DOMAIN vars
        /\ c.ok
        /\ c.val = VNone
        /\ \E n \in CallSet :
              /\ n.value = InnerOf(c.value)
              /\ n.ok
              /\ n.after = n.before
              /\ n.val # VNone

\* ------------------------------------------------------------------ C9

\* The position of the LEN attribute of the sequence a call decoded.
LengthValue(c) == ChildValue(c.value, LENGTH_ATTR, OptT(IntT), NoMeta)

\* The declared length of the sequence a call decoded: the integer of its
\* LEN variable, 0 if there is none.
DeclaredLength(c) ==
    IF /\ LengthValue(c).var_name \in DOMAIN vars
       /\ SentinelOf(LengthValue(c)).var_name \notin DOMAIN vars
       /\ ParseInt(vars[LengthValue(c).var_name]).ok
    THEN ParseInt(vars[LengthValue(c).var_name]).val.v
    ELSE 0

\* The position of the i-th item of the sequence a call decoded.
ItemValue(c, i) == ChildValue(c.value, ToString(i), GetArgs(c.value.type)[1], NoMeta)

\* C9, as the specification and the tests state it: a list or any-length
\* tuple with LEN = N > 0 and a producible item type decodes to N items even
\* when no item key is in the input (LEN=2: [Item(None), Item(None)] and
\* [None, None]); without LEN and without item keys it is empty.
C9_DeclaredLengthGivesDefaults ==
    \A c \in SequenceCalls :
        (/\ Producible(GetArgs(c.value.type)[1])
         /\ \A i \in 0..MaxIndex : KeysOf(ItemValue(c, i)) \cap DOMAIN vars = {})
            => /\ DeclaredLength(c) > 0
                     => /\ c.ok
                        /\ c.val.v = [i \in 1..DeclaredLength(c) |->
                                         TypeDefault(GetArgs(c.value.type)[1])]
               /\ KeysOf(LengthValue(c)) \cap DOMAIN vars = {}
                     => /\ c.ok
                        /\ c.val.v = <<>>

\* ----------------------------------------------------------------- C10

\* C10, as the specification and the tests state it: with LEN = N > 0 a
\* decoded list or any-length tuple has exactly N items, those of the indices
\* 0..N-1, and claims no item key of an index >= N (LEN=2, LIST_1_VALUE:
\* [Item(None), Item(..)]).
C10_DeclaredLengthIsExact ==
    \A c \in SequenceCalls :
        (DeclaredLength(c) > 0 /\ c.ok)
            => /\ Len(c.val.v) = DeclaredLength(c)
               /\ \A i \in 0..MaxIndex :
                     i >= DeclaredLength(c)
                         => SubtreeClaims(ItemValue(c, i)) = {}

\* ----------------------------------------------------------------- C11

\* The invocations that decoded the item of index i of the sequence of call c.
ItemCalls(c, i) == {n \in CallSet : n.value = ItemValue(c, i)}

\* No key of the LEN attribute of the sequence of call c is in the input.
OpenMode(c) == KeysOf(LengthValue(c)) \cap DOMAIN vars = {}

\* The item of index i ends the open sequence of call c: it is not present
\* and was not decoded, or it was decoded and claimed no key.
EndsSequence(c, i) ==
    IF IsPresent(NoEnv, ItemValue(c, i)).present
    THEN \E n \in ItemCalls(c, i) : n.ok /\ n.after = n.before
    ELSE ItemCalls(c, i) = {}

\* C11: in open mode (no LEN key) a list or any-length tuple is dense from
\* index 0.  A returned sequence of n items holds the values decoded for the
\* indices 0..n-1, each with a positive footprint and in ascending order;
\* the item of index n is not present or was decoded with footprint 0; no
\* item of a higher index is decoded and no key at or after the gap is
\* claimed, nor is an error raised for such keys: a failed decode carries
\* the error of the last item it decoded.  With LIST_1_VALUE only, the list
\* of test_optional_list_items is empty and the key stays unclaimed.
C11_OpenSequenceIsDense ==
    /\ \A c \in SequenceCalls :
          OpenMode(c) =>
              IF c.ok
              THEN /\ \A i \in 0..(Len(c.val.v) - 1) :
                         \E n \in ItemCalls(c, i) :
                             /\ n.ok
                             /\ n.after # n.before
                             /\ n.val = c.val.v[i + 1]
                   /\ EndsSequence(c, Len(c.val.v))
                   /\ \A j \in 0..(MaxIndex + 1) :
                         j >= Len(c.val.v)
                             => /\ SubtreeClaims(ItemValue(c, j)) = {}
                                /\ j > Len(c.val.v) => ItemCalls(c, j) = {}
              ELSE \E k \in 0..(MaxIndex + 1) :
                       /\ \E n \in ItemCalls(c, k) : ~n.ok /\ n.err = c.err
                       /\ \A i \in 0..(k - 1) :
                             \E n \in ItemCalls(c, i) : n.ok /\ n.after # n.before
                       /\ \A j \in 0..(MaxIndex + 1) :
                             j > k => /\ ItemCalls(c, j) = {}
                                      /\ SubtreeClaims(ItemValue(c, j)) = {}
    /\ \A a, b \in 1..Len(calls) :
          (\E c \in SequenceCalls : \E i, j \in 0..(MaxIndex + 1) :
              /\ i < j
              /\ calls[a].value = ItemValue(c, i)
              /\ calls[b].value = ItemValue(c, j)) => a < b
    /\ (root = "ListOfOptional" /\ DOMAIN vars = {"LIST_1_VALUE"})
          => /\ pc # "error"
             /\ bound = <<>>
             /\ pc = "done" => result = VObj("ListOfOptional", <<VList(<<>>)>>)

\* A list with a key at index 1 and none at index 0 was decoded to the empty
\* list, and the key is unclaimed.
C11_Witness ==
    \E c \in SequenceCalls :
        /\ OpenMode(c)
        /\ c.ok
        /\ c.val.v = <<>>
        /\ KeysOf(ItemValue(c, 0)) \cap DOMAIN vars = {}
        /\ KeysOf(ItemValue(c, 1)) \cap DOMAIN vars # {}
        /\ DOMAIN bound = {}

\* ----------------------------------------------------------------- C12

\* A list or an any-length tuple, and its empty container.
IsSequence(t) == t.k = "list" \/ IsAnyLength(t)
EmptyOf(t) == IF t.k = "list" THEN VList(<<>>) ELSE VTuple(<<>>)

\* Of the keys below a sequence position, the input holds the LEN key only,
\* with the raw value "0".
OnlyLengthZero(value) ==
    /\ KeysOf(value) \cap DOMAIN vars =
           {ChildValue(value, LENGTH_ATTR, OptT(IntT), NoMeta).var_name}
    /\ vars[ChildValue(value, LENGTH_ATTR, OptT(IntT), NoMeta).var_name] = "0"

\* C12: the LEN key counts in the footprint of a list or any-length tuple.
\* A sequence that returned with its LEN key in the input (and no sentinel
\* of LEN) has claimed the LEN key.  With LEN = "0" as the only key of the
\* sequence, an Optional sequence decodes to the empty container and a
\* sequence field with a field default holds the empty container; with no
\* key of the sequence in the input they are null and the field default.
C12_LengthKeyCountsInFootprint ==
    /\ \A c \in SequenceCalls :
          (/\ c.ok
           /\ LengthValue(c).var_name \in DOMAIN vars
           /\ SentinelOf(LengthValue(c)).var_name \notin DOMAIN vars)
              => /\ LengthValue(c).var_name \in c.after \ c.before
                 /\ bound[LengthValue(c).var_name].qual_name =
                        LengthValue(c).qual_name
    /\ \A o \in OptionalCalls :
          IsSequence(InnerOf(o.value).type)
              => /\ (OnlyLengthZero(InnerOf(o.value))
                      /\ SentinelOf(o.value).var_name \notin DOMAIN vars)
                        => /\ o.ok
                           /\ o.val = EmptyOf(InnerOf(o.value).type)
                 /\ KeysOf(o.value) \cap DOMAIN vars = {}
                        => /\ o.ok
                           /\ o.val = VNone
    /\ \A d \in DataClassCalls :
          d.ok =>
              \A i \in 1..Len(Fields(d.value.type)) :
                  (/\ HasDefault(Fields(d.value.type)[i])
                   /\ IsSequence(Fields(d.value.type)[i].type))
                      => /\ OnlyLengthZero(FieldValue(d, i))
                            => FieldOf(d, i) = EmptyOf(Fields(d.value.type)[i].type)
                         /\ KeysOf(FieldValue(d, i)) \cap DOMAIN vars = {}
                            => FieldOf(d, i) = DefaultValue(Fields(d.value.type)[i])
    /\ \A d \in DataClassCalls :
          d.ok =>
              \A i \in 1..Len(Fields(d.value.type)) :
                  (/\ HasDefault(Fields(d.value.type)[i])
                   /\ IsOptional(Fields(d.value.type)[i].type)
                   /\ IsSequence(InnerOf(FieldValue(d, i)).type))
                      => /\ (OnlyLengthZero(InnerOf(FieldValue(d, i)))
                              /\ SentinelOf(FieldValue(d, i)).var_name
                                     \notin DOMAIN vars)
                            => FieldOf(d, i) =
                                  EmptyOf(InnerOf(FieldValue(d, i)).type)
                         /\ KeysOf(FieldValue(d, i)) \cap DOMAIN vars = {}
                            => FieldOf(d, i) = DefaultValue(Fields(d.value.type)[i])

\* test_empty_tuple_instead_of_field_default and
\* test_type_default_instead_of_field_default_and_none: with LEN = "0" only,
\* the tuple field is () and the Optional list field is [].
C12_Witness ==
    /\ pc = "done"
    /\ \/ /\ root = "TupleDefault"
          /\ DOMAIN vars = {"TUPLE_LEN"}
          /\ vars["TUPLE_LEN"] = "0"
          /\ result = VObj("TupleDefault", <<VTuple(<<>>)>>)
       \/ /\ root = "NoneOrDefault"
          /\ DOMAIN vars = {"LIST_LEN"}
          /\ vars["LIST_LEN"] = "0"
          /\ FieldOf([val |-> result], 1) = VList(<<>>)

\* ----------------------------------------------------------------- C13

\* The invocations of UnionLoader.load.
UnionCalls == {c \in CallSet : c.loader = "union"}

\* The position of a union under its i-th alternative, and whether the
\* loader of that alternative reports it present.
Alt(value, i) == ReplaceType(value, GetArgs(value.type)[i])
AltPresent(value, i) == IsPresent(NoEnv, Alt(value, i)).present

\* C13: a union decodes the first alternative, in declared order, whose
\* loader reports present: the union returns (or raises) what the decode of
\* that alternative returned (or raised), and claims what it claimed; no
\* other alternative is decoded or claims a key.  For the raw value "2",
\* str | int gives the string "2" and Union[int, str] the integer 2.
C13_UnionDecodesFirstPresent ==
    /\ \A u \in UnionCalls :
          \A i \in 1..Len(GetArgs(u.value.type)) :
              (/\ AltPresent(u.value, i)
               /\ \A j \in 1..(i - 1) : ~AltPresent(u.value, j))
                  => /\ \E n \in CallSet :
                           /\ n.value = Alt(u.value, i)
                           /\ n.before = u.before
                           /\ n.after = u.after
                           /\ n.ok = u.ok
                           /\ n.val = u.val
                           /\ n.err = u.err
                     /\ \A j \in 1..Len(GetArgs(u.value.type)) :
                           j # i => /\ \A n \in CallSet : n.value # Alt(u.value, j)
                                    /\ SubtreeClaims(Alt(u.value, j)) = {}
    /\ (/\ root = "UnionData"
        /\ pc = "done"
        /\ vars = [k \in {"OR_TYPE_FIELD", "UNION_FIELD"} |-> "2"])
          => result = VObj("UnionData", <<VStr("2"), VInt(2)>>)

\* test_union has returned the string and the integer.
C13_Witness ==
    /\ root = "UnionData"
    /\ vars = [k \in {"OR_TYPE_FIELD", "UNION_FIELD"} |-> "2"]
    /\ pc = "done"
    /\ result = VObj("UnionData", <<VStr("2"), VInt(2)>>)

\* ----------------------------------------------------------------- C14

\* A sequence with its a-th and b-th elements exchanged.
Swap(seq, a, b) ==
    [k \in 1..Len(seq) |->
        IF k = a THEN seq[b] ELSE IF k = b THEN seq[a] ELSE seq[k]]

\* The position of a union, declared with two alternatives exchanged.
Swapped(value, a, b) ==
    ReplaceType(value, UnionT(Swap(GetArgs(value.type), a, b)))

\* The ledger as it was when invocation c started (claims are never undone).
EnvBefore(c) == Env([k \in c.before |-> bound[k]], <<>>)

\* Two exceptions are the same, a union type being the same whatever the
\* order of its alternatives.
SameError(e1, e2) ==
    /\ e1.kind = e2.kind
    /\ e1.var_name = e2.var_name
    /\ e1.qual_name = e2.qual_name
    /\ e1.first_qual_name = e2.first_qual_name
    /\ e1.value_type.k = e2.value_type.k
    /\ IF e1.value_type.k = "union"
       THEN {e1.value_type.args[k] : k \in 1..Len(e1.value_type.args)} =
            {e2.value_type.args[k] : k \in 1..Len(e2.value_type.args)}
       ELSE e1.value_type = e2.value_type

\* The decode r has the outcome of invocation u: the same value or error
\* and the same set of claimed keys.
SameOutcome(u, r) ==
    /\ r.ok = u.ok
    /\ r.val.t = u.val.t
    /\ r.val = u.val
    /\ SameError(r.err, u.err)
    /\ DOMAIN r.env.bound = u.after

\* C14, as the specification states it: exchanging two alternatives of a
\* union changes the outcome of its decode only if both report present.
C14_SwapChangesOnlyIfBothPresent ==
    \A u \in UnionCalls :
        \A a, b \in 1..Len(GetArgs(u.value.type)) :
            (a < b /\ ~(AltPresent(u.value, a) /\ AltPresent(u.value, b)))
                => SameOutcome(u, UnionLoad(EnvBefore(u), Swapped(u.value, a, b)))

\* C14, as the code has it: exchanging two alternatives changes the outcome
\* only if both report present, or if one of them and an alternative
\* declared between them report present; exchanging two alternatives that
\* are adjacent in the declaration changes it only if both report present.
C14_SwapChangesOnlyIfOrderMatters ==
    \A u \in UnionCalls :
        \A a, b \in 1..Len(GetArgs(u.value.type)) :
            (/\ a < b
             /\ ~(AltPresent(u.value, a) /\ AltPresent(u.value, b))
             /\ ~(/\ AltPresent(u.value, a) \/ AltPresent(u.value, b)
                  /\ \E k \in (a + 1)..(b - 1) : AltPresent(u.value, k)))
                => SameOutcome(u, UnionLoad(EnvBefore(u), Swapped(u.value, a, b)))

\* A union of which only the later of two alternatives is present was
\* decoded; the declaration with the two exchanged decodes to the same.
C14_Witness ==
    \E u \in UnionCalls :
        \E a, b \in 1..Len(GetArgs(u.value.type)) :
            /\ a < b
            /\ ~AltPresent(u.value, a)
            /\ AltPresent(u.value, b)
            /\ \A k \in (a + 1)..(b - 1) : ~AltPresent(u.value, k)
            /\ u.ok
            /\ u.after # u.before
            /\ SameOutcome(u, UnionLoad(EnvBefore(u), Swapped(u.value, a, b)))

\* ----------------------------------------------------------------- C15

\* Some alternative of a union position reports present.
AnyAltPresent(value) ==
    \E i \in 1..Len(GetArgs(value.type)) : AltPresent(value, i)

\* A non-Optional union type: the one UnionLoader handles.
IsPlainUnion(t) == t.k = "union" /\ ~IsOptional(t)

\* C15: the decode of a union none of whose alternatives reports present
\* raises UnionLoadingError with the qualified name of the position and the
\* union type, decodes no alternative and claims no key; with an alternative
\* present it never raises that error.  is_present of a union is true iff an
\* alternative reports present: an Optional over a union decodes the union
\* exactly then (and is null otherwise), and a union field with a default
\* is decoded exactly then (and skipped otherwise).
C15_UnionWithoutPresentAlternative ==
    /\ \A u \in UnionCalls :
          /\ IsPresent(NoEnv, u.value).present <=> AnyAltPresent(u.value)
          /\ IF AnyAltPresent(u.value)
             THEN u.err.kind # "UnionLoadingError"
             ELSE /\ ~u.ok
                  /\ u.err.kind = "UnionLoadingError"
                  /\ u.err.qual_name = u.value.qual_name
                  /\ u.err.value_type = u.value.type
                  /\ u.after = u.before
                  /\ \A i \in 1..Len(GetArgs(u.value.type)) :
                        \A n \in CallSet : n.value # Alt(u.value, i)
    /\ \A o \in OptionalCalls :
          (/\ IsPlainUnion(InnerOf(o.value).type)
           /\ SentinelOf(o.value).var_name \notin DOMAIN vars)
              => /\ IsPresent(NoEnv, InnerOf(o.value)).present
                        <=> AnyAltPresent(InnerOf(o.value))
                 /\ IF AnyAltPresent(InnerOf(o.value))
                    THEN \E u \in UnionCalls : u.value = InnerOf(o.value)
                    ELSE /\ \A u \in UnionCalls : u.value # InnerOf(o.value)
                         /\ o.ok
                         /\ o.val = VNone
                         /\ o.after = o.before
    /\ \A d \in DataClassCalls :
          \A i \in 1..Len(Fields(d.value.type)) :
              (/\ HasDefault(Fields(d.value.type)[i])
               /\ ~HasParser(Fields(d.value.type)[i])
               /\ IsPlainUnion(Fields(d.value.type)[i].type)
               /\ d.ok)
                  => IF AnyAltPresent(FieldValue(d, i))
                     THEN \E u \in UnionCalls : u.value = FieldValue(d, i)
                     ELSE /\ \A u \in UnionCalls : u.value # FieldValue(d, i)
                          /\ FieldOf(d, i) = DefaultValue(Fields(d.value.type)[i])

\* The decode of a required union field failed on the empty input with the
\* UnionLoadingError of the field.
C15_Witness ==
    /\ root = "UnionOfThree"
    /\ DOMAIN vars = {}
    /\ pc = "error"
    /\ error = UnionLoadingError("UnionOfThree.field",
                                 UnionT(<<DataT("NestedAttr"), IntT, TupleT(<<IntT>>)>>))
    /\ bound = <<>>

\* ----------------------------------------------------------------- C16

\* The invocations of FixedLengthTupleLoader.load on tuples of scalars.
ScalarTupleCalls ==
    {c \in CallSet :
        /\ c.loader = "fixed_tuple"
        /\ \A i \in 1..Len(GetArgs(c.value.type)) :
              GetArgs(c.value.type)[i].k \in {"int", "float", "str", "bool"}}

\* The invocations that decoded the element of index i of the fixed tuple of
\* call c.
ElementCalls(c, i) ==
    {n \in CallSet :
        n.value = ChildValue(c.value, ToString(i), GetArgs(c.value.type)[i + 1],
                             NoMeta)}

\* The key of the element of index i of the tuple of call c, written out.
ElementKey(c, i) == c.value.var_name \o config.sep \o ToString(i)

\* The element of index i is the first one whose key is not in the input.
FirstAbsent(c, i) ==
    /\ ElementKey(c, i) \notin DOMAIN vars
    /\ \A j \in 0..(i - 1) : ElementKey(c, j) \in DOMAIN vars

DerivedKey(parent_key, ref) ==
    IF parent_key = NONE \/ parent_key = ""
    THEN Upper(ref)
    ELSE parent_key \o config.sep \o Upper(ref)

\* The prefix part of every key under the configuration.
KeyPrefix ==
    IF config.prefix = NONE \/ config.prefix = ""
    THEN ""
    ELSE config.prefix \o config.sep

\* The references from the position of an invocation to its children: the
\* names of the fields without an override key, the indices, LEN, IS_NONE__.
Refs(p) ==
    CASE p.loader = "dataclass" ->
            {Fields(p.value.type)[i].name : i \in
                {k \in 1..Len(Fields(p.value.type)) :
                    Fields(p.value.type)[k].metadata.name = NONE}}
      [] p.loader \in {"list", "any_tuple"} ->
            {ToString(i) : i \in 0..(MaxIndex + 1)} \cup {LENGTH_ATTR}
      [] p.loader = "fixed_tuple" ->
            {ToString(i - 1) : i \in 1..Len(GetArgs(p.value.type))}
      [] p.loader = "optional" -> {IS_NONE}
      [] OTHER -> {}

\* The qualified name of the child of an invocation's position.
QualOf(p, ref) ==
    IF p.loader = "dataclass"
    THEN p.value.qual_name \o "." \o ref
    ELSE p.value.qual_name \o "[" \o ref \o "]"

\* The invocations so far, and the one of the root loader, which is logged
\* when it ends.
Parents ==
    {[loader |-> c.loader, value |-> c.value] : c \in CallSet}
    \cup {[loader |-> "dataclass",
           value |-> Value(DataT(root), config.prefix, root, NoMeta)]}

\* C17: key derivation.  At every depth, the key of a child position is the
\* upper-cased reference when the parent has no key (no prefix or an empty
\* one, at the root) and parent key + SEP + upper-cased reference otherwise;
\* every bind uses the key of its position.  The keys of the classes of
\* test_prefix and test_custom_separator are prefix + SEP + the upper-cased
\* path joined by SEP.  With a prefix the root field is read from
\* prefix + SEP + VALUE only; with the separator "__" a required field whose
\* variable is given with "_" raises MissingRequiredVar.
C17_KeyDerivation ==
    /\ \A p \in Parents : \A n \in CallSet : \A ref \in Refs(p) :
          n.value.qual_name = QualOf(p, ref)
              => n.value.var_name = DerivedKey(p.value.var_name, ref)
    /\ \A j \in 1..Len(binds) :
          /\ \E n \in CallSet :
                /\ n.value.var_name = binds[j].var_name
                /\ n.value.qual_name = binds[j].qual_name
          /\ binds[j].qual_name = "Prefixed.value"
                => binds[j].var_name = KeyPrefix \o "VALUE"
          /\ binds[j].qual_name = "Separated.nested.value"
                => binds[j].var_name =
                      KeyPrefix \o "NESTED" \o config.sep \o "VALUE"
          /\ binds[j].qual_name = "Separated.list[0]"
                => binds[j].var_name = KeyPrefix \o "LIST" \o config.sep \o "0"
          /\ binds[j].qual_name = "Separated.list[LEN]"
                => binds[j].var_name = KeyPrefix \o "LIST" \o config.sep \o "LEN"
          /\ binds[j].qual_name = "Separated.list[LEN][IS_NONE__]"
                => binds[j].var_name =
                      KeyPrefix \o "LIST" \o config.sep \o "LEN"
                                \o config.sep \o "IS_NONE__"
    /\ root = "Prefixed"
          => IF KeyPrefix \o "VALUE" \in DOMAIN vars
             THEN /\ pc # "error"
                  /\ pc = "done" =>
                        /\ result = VObj("Prefixed",
                                         <<VStr(vars[KeyPrefix \o "VALUE"])>>)
                        /\ DOMAIN bound = {KeyPrefix \o "VALUE"}
             ELSE /\ pc # "done"
                  /\ pc = "error" =>
                        /\ error = MissingRequiredVar(KeyPrefix \o "VALUE",
                                                      "Prefixed.value")
                        /\ bound = <<>>
    /\ (/\ root = "Separated"
        /\ KeyPrefix \o "NESTED" \o config.sep \o "VALUE" \notin DOMAIN vars)
          => /\ pc # "done"
             /\ pc = "error" =>
                   /\ error = MissingRequiredVar(
                                  KeyPrefix \o "NESTED" \o config.sep \o "VALUE",
                                  "Separated.nested.value")
                   /\ bound = <<>>

\* test_custom_separator, under a prefix too: the nested field and the list
\* item are read from PREFIX__NESTED__VALUE and PREFIX__LIST__0.
C17_Witness ==
    /\ root = "Separated"
    /\ config = Config("PREFIX", "__")
    /\ DOMAIN vars = {"PREFIX__NESTED__VALUE", "PREFIX__LIST__0"}
    /\ pc = "done"
    /\ DOMAIN bound = {"PREFIX__NESTED__VALUE", "PREFIX__LIST__0"}
    /\ FieldOf([val |-> result], 1) =
          VObj("NestedStr", <<VStr(vars["PREFIX__NESTED__VALUE"])>>)

\* ----------------------------------------------------------------- C18

\* The fields of a record that carry an override key.
HasOverride(field) == field.metadata.given /\ field.metadata.name # NONE

\* The scalar types.
IsScalar(t) == t.k \in {"int", "float", "str", "bool"}

\* The records whose presence is decided by the keys of their required
\* fields alone: every required field is a scalar without custom parser.
RequiredAreScalars(t) ==
    /\ IsDataclass(t)
    /\ \A i \in 1..Len(RequiredFields(t)) :
          /\ IsScalar(RequiredFields(t)[i].type)
          /\ RequiredFields(t)[i].metadata.load = NONE

\* The key of every required field of the record at a position is in the
\* input, the key of a field with an override being the override.
RequiredKeysGiven(value) ==
    \A i \in 1..Len(Fields(value.type)) :
        ~HasDefault(Fields(value.type)[i])
            => FieldValue([value |-> value], i).var_name \in DOMAIN vars

\* C18, as the specification states it: the key of a field with an override
\* is the override as written (no prefix, no parent key, no upper-casing)
\* and its qualified name is the computed one; the positions below derive
\* their keys from the override; the computed key is no longer read: the
\* field is decoded from the override key and is missing without it,
\* whatever the computed key holds, and a record under an Optional is present
\* exactly when the keys of its required fields, overrides included, are in
\* the input.
C18_OverrideReplacesKey ==
    /\ \A p \in Parents : \A n \in CallSet :
          p.loader = "dataclass" =>
              \A i \in 1..Len(Fields(p.value.type)) :
                  (/\ HasOverride(Fields(p.value.type)[i])
                   /\ n.value.qual_name =
                          p.value.qual_name \o "." \o Fields(p.value.type)[i].name)
                      => n.value.var_name = Fields(p.value.type)[i].metadata.name
    /\ \A j \in 1..Len(binds) :
          /\ binds[j].qual_name \in {"OverrideShort.field_name",
                                     "OverrideMeta.field_name",
                                     "OptionalHolder.inner.field_name"}
                => binds[j].var_name = "OVERRIDE_NAME"
          /\ binds[j].qual_name = "OverrideNested.nested.value"
                => binds[j].var_name = "custom" \o config.sep \o "VALUE"
    /\ root \in {"OverrideShort", "OverrideMeta"}
          => IF "OVERRIDE_NAME" \in DOMAIN vars
             THEN /\ pc # "error"
                  /\ pc = "done" =>
                        /\ result = VObj(root, <<VStr(vars["OVERRIDE_NAME"])>>)
                        /\ DOMAIN bound = {"OVERRIDE_NAME"}
             ELSE /\ pc # "done"
                  /\ pc = "error" =>
                        /\ error = MissingRequiredVar("OVERRIDE_NAME",
                                                      root \o ".field_name")
                        /\ bound = <<>>
    /\ \A o \in OptionalCalls :
          (/\ RequiredAreScalars(InnerOf(o.value).type)
           /\ SentinelOf(o.value).var_name \notin DOMAIN vars)
              => IF RequiredKeysGiven(InnerOf(o.value))
                 THEN \E n \in CallSet : n.value = InnerOf(o.value)
                 ELSE /\ \A n \in CallSet : n.value # InnerOf(o.value)
                      /\ o.ok
                      /\ o.val = VNone

\* ----------------------------------------------------------------- C19

\* The invocations of CustomLoader.load.
CustomCalls == {c \in CallSet : c.loader = "custom"}

\* The records all of whose required fields carry a custom parser.
RequiredAreCustom(t) ==
    /\ IsDataclass(t)
    /\ RequiredFields(t) # <<>>
    /\ \A i \in 1..Len(RequiredFields(t)) : HasParser(RequiredFields(t)[i])

\* The positions the structural loader of the declared type would derive
\* below a position, were there no custom parser.
StructuralPositions(value) == Positions([value EXCEPT !.metadata = NoMeta])

\* C19, as the specification states it: a position with a custom parser is
\* decoded by the Custom loader whatever its declared type (list, union,
\* Optional, record).  Its decode claims its own key and nothing else and
\* returns the parser's value of the raw string, or raises
\* MissingRequiredVar when the key is not in the input; no child key of the
\* declared type is claimed.  It is present iff its own key is in the
\* input: a field with a default is decoded exactly then, and a record
\* under an Optional whose required fields carry parsers is decoded exactly
\* when their keys are in the input.
C19_CustomParserTakesPrecedence ==
    /\ \A n \in CallSet : n.value.metadata.load # NONE => n.loader = "custom"
    /\ \A c \in CustomCalls :
          /\ c.after \subseteq c.before \cup {c.value.var_name}
          /\ IF c.value.var_name \notin DOMAIN vars
             THEN /\ ~c.ok
                  /\ c.err = MissingRequiredVar(c.value.var_name, c.value.qual_name)
                  /\ c.after = c.before
             ELSE /\ c.err.kind # "MissingRequiredVar"
                  /\ c.ok => /\ c.after = c.before \cup {c.value.var_name}
                              /\ c.val = VInt(IntLiterals[vars[c.value.var_name]])
          /\ \A q \in StructuralPositions(c.value) :
                \A k \in DOMAIN bound :
                    bound[k].qual_name = q.qual_name => bound[k] = c.value
    /\ \A d \in DataClassCalls :
          d.ok =>
              \A i \in 1..Len(Fields(d.value.type)) :
                  (HasParser(Fields(d.value.type)[i])
                   /\ HasDefault(Fields(d.value.type)[i]))
                      => IF FieldValue(d, i).var_name \in DOMAIN vars
                         THEN \E c \in CustomCalls :
                                 /\ c.value = FieldValue(d, i)
                                 /\ c.val = FieldOf(d, i)
                         ELSE /\ \A c \in CallSet : c.value # FieldValue(d, i)
                              /\ FieldOf(d, i) =
                                     DefaultValue(Fields(d.value.type)[i])
    /\ \A o \in OptionalCalls :
          (/\ RequiredAreCustom(InnerOf(o.value).type)
           /\ SentinelOf(o.value).var_name \notin DOMAIN vars)
              => IF RequiredKeysGiven(InnerOf(o.value))
                 THEN \E n \in CallSet : n.value = InnerOf(o.value)
                 ELSE /\ \A n \in CallSet : n.value # InnerOf(o.value)
                      /\ o.ok
                      /\ o.val = VNone
    /\ (root = "CustomFormat" /\ "JSON_VALUE" \notin DOMAIN vars)
          => /\ pc # "done"
             /\ pc = "error" =>
                   error = MissingRequiredVar("JSON_VALUE", "CustomFormat.json_value")

\* ----------------------------------------------------------------- C20

\* The exceptions that derive from LoadingError.
LoadingErrors ==
    {"MissingRequiredVar", "AmbiguousVarError", "InvalidVariableFormat",
     "UnsupportedValueType", "UnionLoadingError"}

\* The invocations that parse a raw string: the custom parser and the int,
\* float and bool scalars.
ParsingCalls == {c \in CallSet : c.loader \in {"custom", "int", "float", "bool"}}

\* C20, as the specification states it: whenever a custom parser or an
\* int, float or bool scalar fails on the raw string of its key, the decode
\* raises InvalidVariableFormat with that key and that qualified name,
\* whatever the parser raised; so from_env never ends in an exception that
\* is not one of the library's loading errors.
C20_ParseFailureIsInvalidVariableFormat ==
    /\ \A c \in ParsingCalls :
          (/\ ~c.ok
           /\ c.value.var_name \in DOMAIN vars
           /\ c.value.var_name \notin c.before)
              => /\ c.err.kind = "InvalidVariableFormat"
                 /\ c.err.var_name = c.value.var_name
                 /\ c.err.qual_name = c.value.qual_name
    /\ pc = "error" => error.kind \in LoadingErrors

\* ----------------------------------------------------------------- C21

\* The invocations of BasicValueLoader.load and BooleanLoader.load.
ScalarCalls == {c \in CallSet : c.loader \in {"int", "float", "str", "bool"}}

\* The Optional invocations over a scalar whose sentinel is not in the input:
\* they decode the scalar exactly when it reports present.
OptionalScalarCalls ==
    {o \in OptionalCalls :
        /\ IsScalar(InnerOf(o.value).type)
        /\ SentinelOf(o.value).var_name \notin DOMAIN vars}

\* C21, as the specification states it: is_present of a scalar is true iff
\* its key is in the input and not yet claimed; an Optional over a scalar
\* decodes the scalar exactly then.
C21_ScalarPresentIffUnclaimed ==
    /\ \A c \in ScalarCalls :
          IsPresent(EnvBefore(c), c.value).present
              <=> /\ c.value.var_name \in DOMAIN vars
                  /\ c.value.var_name \notin c.before
    /\ \A o \in OptionalScalarCalls :
          (\E n \in ScalarCalls : n.value = InnerOf(o.value))
              <=> /\ o.value.var_name \in DOMAIN vars
                  /\ o.value.var_name \notin o.before

\* C21, as the code has it: is_present of a scalar is true iff its key is in
\* the input, claimed or not.  An Optional over a scalar decodes the scalar
\* exactly when the key is in the input, and raises AmbiguousVarError when
\* another position claimed the key before.
C21_ScalarPresentIffKeyInInput ==
    /\ \A c \in ScalarCalls :
          IsPresent(EnvBefore(c), c.value).present
              <=> c.value.var_name \in DOMAIN vars
    /\ \A o \in OptionalScalarCalls :
          /\ (\E n \in ScalarCalls : n.value = InnerOf(o.value))
                 <=> o.value.var_name \in DOMAIN vars
          /\ (o.value.var_name \in DOMAIN vars /\ o.value.var_name \in o.before)
                 => /\ ~o.ok
                    /\ IsAmbiguity(o.err, o.value.var_name,
                                   bound[o.value.var_name].qual_name,
                                   o.value.qual_name)

\* test_ambiguity: the Optional scalar whose key the nested record claimed
\* is reported present and its decode raises AmbiguousVarError.
C21_Witness ==
    \E o \in OptionalScalarCalls :
        /\ o.value.var_name \in o.before
        /\ ~o.ok
        /\ o.err.kind = "AmbiguousVarError"
        /\ \E n \in ScalarCalls : n.value = InnerOf(o.value)

\* ----------------------------------------------------------------- C22

\* is_present of the position of call c answered true on the ledger the call
\* started from.
ReportedPresent(c) ==
    /\ ~IsPresent(EnvBefore(c), c.value).raised
    /\ IsPresent(EnvBefore(c), c.value).present

\* C22, as the specification states it: presence soundness.  For every
\* handler and position, if is_present answers true on the input and the
\* ledger a decode starts from, that decode does not raise
\* MissingRequiredVar.
C22_PresentNeverMissing ==
    \A c \in CallSet : ReportedPresent(c) => c.err.kind # "MissingRequiredVar"

\* ----------------------------------------------------------------- C23

\* Call c is the decode that claimed key k for position v: a scalar or a
\* custom decode of v, or the Optional decode whose sentinel v is.
Claimer(c, k, v) ==
    /\ k \in c.after
    /\ k \notin c.before
    /\ v.var_name = k
    /\ \/ c.loader \in {"int", "float", "str", "bool", "custom"} /\ c.value = v
       \/ c.loader = "optional" /\ SentinelOf(c.value) = v

\* One step of the decode claims only by decodes: the input mapping is the
\* same, a step that ran presence checks only (no decode was invoked) leaves
\* the ledger as it was, and every key the step added to the ledger was
\* unclaimed when the decode that claimed it started.
OnlyDecodeClaims ==
    /\ vars' = vars
    /\ calls' = calls => bound' = bound /\ binds' = binds
    /\ \A k \in DOMAIN bound :
          k \in DOMAIN bound' /\ bound'[k] = bound[k]
    /\ \A k \in DOMAIN bound' \ DOMAIN bound :
          \E i \in (Len(calls) + 1)..Len(calls') :
              Claimer(calls'[i], k, bound'[k])

\* C23: is_present of every handler, recursive calls included, leaves the
\* ledger and the input mapping unchanged; only decode adds claims.
C23_PresenceChecksClaimNothing == [][OnlyDecodeClaims]_allVars

\* test_union with the second alternative in the input: the presence of the
\* record alternative and of the scalar alternative was asked, the ledger
\* holds the one key the decode of the scalar claimed.
C23_Witness ==
    \E u \in UnionCalls :
        /\ u.ok
        /\ ~AltPresent(u.value, 1)
        /\ AltPresent(u.value, 2)
        /\ u.before = {}
        /\ Cardinality(u.after) = 1
        /\ DOMAIN bound = u.after

\* ----------------------------------------------------------------- C24

\* The decodes that start with env.bind(value): the scalars and the custom
\* parser.
BindingCalls == ScalarCalls \cup CustomCalls

\* A ledger in which the key of a position is claimed by the root position.
ClaimedByRoot(value) == Env(value.var_name :> RootValue(root), <<>>)

\* C24: a claim of a position whose key is not in the input raises
\* MissingRequiredVar(key, qual), also on a ledger that holds the key (the
\* input is checked first); else, if the key is claimed already, it raises
\* AmbiguousVarError(key, first_qual, second_qual); else the ledger records
\* the position under the key.  On either failure the ledger is as it was:
\* the first claimant stays recorded.
C24_ClaimOutcomes ==
    \A c \in BindingCalls :
        IF c.value.var_name \notin DOMAIN vars
        THEN /\ ~c.ok
             /\ c.err.kind = "MissingRequiredVar"
             /\ c.err.var_name = c.value.var_name
             /\ c.err.qual_name = c.value.qual_name
             /\ c.after = c.before
             /\ Bind(ClaimedByRoot(c.value), c.value).err.kind
                    = "MissingRequiredVar"
             /\ Bind(ClaimedByRoot(c.value), c.value).env.bound
                    = ClaimedByRoot(c.value).bound
        ELSE IF c.value.var_name \in c.before
        THEN /\ ~c.ok
             /\ IsAmbiguity(c.err, c.value.var_name,
                            bound[c.value.var_name].qual_name,
                            c.value.qual_name)
             /\ c.after = c.before
             /\ bound[c.value.var_name] # c.value
             /\ \E n \in CallSet :
                   Claimer(n, c.value.var_name, bound[c.value.var_name])
        ELSE /\ c.after = c.before \cup {c.value.var_name}
             /\ bound[c.value.var_name] = c.value
             /\ c.err.kind \notin {"MissingRequiredVar", "AmbiguousVarError"}

\* A claim was refused as ambiguous and the first claimant is still the one
\* the ledger records.
C24_Witness ==
    \E c \in BindingCalls :
        /\ c.value.var_name \in c.before
        /\ ~c.ok
        /\ c.err.kind = "AmbiguousVarError"
        /\ c.after = c.before
        /\ bound[c.value.var_name].qual_name = c.err.first_qual_name
        /\ bound[c.value.var_name].qual_name # c.value.qual_name

\* ----------------------------------------------------------------- C25

\* changes.footprint of the scope around call c: len(bound) after minus
\* len(bound) before.
Footprint(c) == Cardinality(c.after) - Cardinality(c.before)

\* Invocation i of the log ran inside invocation j: the log holds the nested
\* invocations before the enclosing one, and i started on a ledger that
\* holds what j started on.
NestedIn(i, j) == i < j /\ calls[j].before \subseteq calls[i].before

\* C25: the ledger only grows during one decode.  What a decode found
\* claimed is claimed when it ends and in every later state, under the
\* position that claimed it; every claimed key is a key of the input; so
\* the footprint of every scope is >= 0, and a scope has at least the
\* footprint of every scope nested in it.
C25_LedgerOnlyGrows ==
    /\ DOMAIN bound \subseteq DOMAIN vars
    /\ \A k \in DOMAIN bound : bound[k].var_name = k
    /\ \A c \in CallSet :
          /\ c.before \subseteq c.after
          /\ c.after \subseteq DOMAIN bound
          /\ Footprint(c) >= 0
          /\ \A k \in c.after \ c.before :
                (c.loader \in {"int", "float", "str", "bool", "custom"})
                    => bound[k] = c.value
    /\ \A i, j \in 1..Len(calls) :
          NestedIn(i, j)
              => /\ calls[i].after \subseteq calls[j].after
                 /\ Footprint(calls[j]) >= Footprint(calls[i])

\* A scope of footprint 2 encloses a scope of footprint 1.
C25_Witness ==
    \E i, j \in 1..Len(calls) :
        /\ NestedIn(i, j)
        /\ Footprint(calls[i]) = 1
        /\ Footprint(calls[j]) = 2
        /\ calls[j].loader # "dataclass"

\* ----------------------------------------------------------------- C26

\* C26: no recovery inside the decoder.  Once a decode raised, every decode
\* that ends after it (the enclosing ones: nothing else runs) raises the
\* same exception, from_env ends with that exception and returns no value:
\* no union falls back to a later alternative, no Optional gives null, no
\* record takes the field default.  A decode that returned holds no failed
\* decode.
C26_FirstErrorPropagates ==
    /\ \A i, j \in 1..Len(calls) :
          (i < j /\ ~calls[i].ok)
              => /\ ~calls[j].ok
                 /\ calls[j].err = calls[i].err
    /\ \A c \in CallSet :
          IF c.ok THEN c.err = NoErr
          ELSE /\ c.err.kind # "none"
               /\ c.val = VNone
               /\ pc = "error"
               /\ error = c.err
               /\ result = VNone
    /\ pc = "done" => \A c \in CallSet : c.ok
    /\ pc = "error" => calls # <<>> /\ ~calls[Len(calls)].ok

\* An Optional over a union whose first alternative is present and fails to
\* parse, its second alternative being present too: the union, the Optional
\* and from_env raise the InvalidVariableFormat of the first alternative.
C26_Witness ==
    \E u \in UnionCalls :
        \E o \in OptionalCalls :
            /\ InnerOf(o.value) = u.value
            /\ AltPresent(u.value, 1)
            /\ AltPresent(u.value, 2)
            /\ ~u.ok
            /\ u.err.kind = "InvalidVariableFormat"
            /\ ~o.ok
            /\ o.err = u.err
            /\ pc = "error"
            /\ error = u.err

\* ----------------------------------------------------------------- C27

AnyTupleCalls == {c \in CallSet : c.loader = "any_tuple"}
ListCalls == {c \in CallSet : c.loader = "list"}

\* The position of a sequence call, its type replaced by the list, resp. the
\* any-length tuple, of the same item type.
AsList(c) == ReplaceType(c.value, ListT(GetArgs(c.value.type)[1]))
AsAnyTuple(c) == ReplaceType(c.value, VarTupleT(GetArgs(c.value.type)[1]))

\* The invocations a decode made below itself, without loader names and
\* without the position types, which name the container.
NestedCalls(r) ==
    {[value |-> r.calls[i].value, before |-> r.calls[i].before,
      after |-> r.calls[i].after, ok |-> r.calls[i].ok,
      val |-> r.calls[i].val, err |-> r.calls[i].err] :
        i \in 1..(Len(r.calls) - 1)}

\* Call c and the decode r of the other container at the same key, on the
\* ledger c started from, agree: both return or both raise the same
\* exception, they claim the same keys, hold the same elements in the same
\* order, and decoded the same positions below; c returned a container of
\* kind t and r one of kind u.
SameSequence(c, r, t, u) ==
    /\ r.ok = c.ok
    /\ r.err = c.err
    /\ DOMAIN r.env.bound = c.after
    /\ \A k \in c.after : r.env.bound[k] = bound[k]
    /\ c.ok => /\ c.val.t = t
               /\ r.val.t = u
               /\ r.val.v = c.val.v
    /\ \A n \in NestedCalls(r) :
          \E m \in CallSet :
              /\ m.value = n.value
              /\ m.before = n.before
              /\ m.after = n.after
              /\ m.ok = n.ok
              /\ m.val = n.val
              /\ m.err = n.err

\* C28: an any-length tuple position decodes exactly like the list of the
\* same item type at the same key, and a list like the any-length tuple:
\* same LEN handling, same elements in the same order, same claimed keys,
\* same errors; only the container differs.
C28_AnyTupleDecodesAsList ==
    /\ \A c \in AnyTupleCalls :
          SameSequence(c, ListLoad(EnvBefore(c), AsList(c)), "tuple", "list")
    /\ \A c \in ListCalls :
          SameSequence(c, AnyLengthTupleLoad(EnvBefore(c), AsAnyTuple(c)),
                       "list", "tuple")

\* An any-length tuple with a LEN key in the input has returned an element.
C28_Witness ==
    \E c \in AnyTupleCalls :
        /\ c.ok
        /\ ~OpenMode(c)
        /\ Len(c.val.v) >= 1

\* ----------------------------------------------------------------- C29

\* DataClassLoader.is_present, line 283: the position is_present builds for
\* the i-th field of the record of call d.
PresenceFieldValue(d, i) ==
    ChildValue(d.value, Fields(d.value.type)[i].name,
               Fields(d.value.type)[i].type, NoMeta)

\* Every required field of a record is a scalar or carries a custom parser:
\* its decode claims exactly the key of its position.
RequiredAreLeaves(t) ==
    /\ IsDataclass(t)
    /\ \A i \in 1..Len(RequiredFields(t)) :
          IsScalar(RequiredFields(t)[i].type) \/ HasParser(RequiredFields(t)[i])

\* C29, as the specification states it: for every required field of a
\* record, is_present builds the position that decode builds (same key, same
\* handler), override keys and custom parsers included; so a record whose
\* required fields are scalars or custom is reported present exactly when
\* the keys its decode claims for them are in the input.
C29_PresenceUsesDecodePositions ==
    \A d \in DataClassCalls :
        /\ \A i \in 1..Len(Fields(d.value.type)) :
              ~HasDefault(Fields(d.value.type)[i])
                  => /\ PresenceFieldValue(d, i).var_name = FieldValue(d, i).var_name
                     /\ ResolveLoader(PresenceFieldValue(d, i))
                            = ResolveLoader(FieldValue(d, i))
        /\ RequiredAreLeaves(d.value.type)
              => (IsPresent(NoEnv, d.value).present <=> RequiredKeysGiven(d.value))

\* ----------------------------------------------------------------- C30

\* C30, as the specification states it: when the caller passes a mapping,
\* the empty one included, the decode reads that mapping and nothing else:
\* the mapping the ledger checks is the argument, only keys of the argument
\* are claimed, and on the empty mapping no key is claimed, whatever the
\* environment of the process holds.
C30_GivenMappingIsTheInput ==
    envArg.given
        => /\ vars = envArg.map
           /\ DOMAIN bound \subseteq DOMAIN envArg.map
           /\ \A c \in CallSet : c.after \subseteq DOMAIN envArg.map
           /\ DOMAIN envArg.map = {} => bound = <<>>

====
